---- MODULE Spec2Model ----
(***************************************************************************)
(* A model of the startpageapi client: the throttle and transport of       *)
(* client.py, the request builder, the facade operations, and the pure     *)
(* helpers of parser.py (URL normalisation, suggestion extraction, the     *)
(* parse_search_results dispatcher).                                       *)
(*                                                                         *)
(* Text the code works on character by character (a query that is          *)
(* stripped, a URL whose prefix is tested, the decimal rendering of an     *)
(* offset) is a sequence of one-character strings.  Names that the code    *)
(* only compares or looks up (parameter keys, table keys and codes,        *)
(* exception class names) are TLA+ strings.                                *)
(***************************************************************************)
EXTENDS Integers, Sequences, FiniteSets, TLC

(***************************************************************************)
(* Bounds of the model.                                                    *)
(***************************************************************************)
MaxTime == 5          \* the clock is followed up to this instant
MaxDelay == 2         \* the largest configured inter-request delay
MaxJitter == 1        \* how much a sleep or a clock reading may run late
MaxRequests == 2      \* requests followed on the wire per behaviour
MaxPage == 3          \* page numbers 0..MaxPage
MaxUrlLen == 4        \* longest URL text fed to _normalize_url
MaxListLen == 3       \* longest exhaustively enumerated suggestion list
MaxLongList == 12     \* longest patterned suggestion list (beyond the cap)
MaxPageElems == 2     \* most elements of a result page
MaxTasks == 2         \* coroutines sharing one async facade

VARIABLES
    now,                \* time.time(): the wall clock
    last_request_time,  \* StartpageAPI.last_request_time
    delay,              \* StartpageAPI.delay
    proxy,              \* StartpageAPI.proxy
    timeout,            \* StartpageAPI.timeout
    wire,               \* throttle timestamps of the requests handed to urllib
    ret,                \* what the last facade call gave its caller
    job,                \* input of a pure helper (parser, builder)
    out,                \* what the pure helper returned or raised
    tasks               \* the coroutines awaiting the async facade, and their worker threads

vars == <<now, last_request_time, delay, proxy, timeout, wire, ret, job, out, tasks>>
session == <<last_request_time, delay, proxy, timeout>>

(***************************************************************************)
(* Text helpers: str.strip, str.startswith, str.endswith, str(int).        *)
(***************************************************************************)
Whitespace == {" ", "\t"}

RECURSIVE lstrip(_)
lstrip(s) == IF s # <<>> /\ Head(s) \in Whitespace THEN lstrip(Tail(s)) ELSE s

RECURSIVE rstrip(_)
rstrip(s) ==
    IF s # <<>> /\ s[Len(s)] \in Whitespace
    THEN rstrip(SubSeq(s, 1, Len(s) - 1))
    ELSE s

strip(s) == rstrip(lstrip(s))

startswith(s, p) == Len(s) >= Len(p) /\ SubSeq(s, 1, Len(p)) = p

endswith(s, p) == Len(s) >= Len(p) /\ SubSeq(s, Len(s) - Len(p) + 1, Len(s)) = p

Digits == <<"0", "1", "2", "3", "4", "5", "6", "7", "8", "9">>

RECURSIVE NatToStr(_)
NatToStr(n) ==
    IF n < 10 THEN <<Digits[n + 1]>>
    ELSE Append(NatToStr(n \div 10), Digits[(n % 10) + 1])

str_int(n) == IF n < 0 THEN <<"-">> \o NatToStr(0 - n) ELSE NatToStr(n)

(***************************************************************************)
(* Python values.  None is PyNone where a name is expected and the empty   *)
(* set where a number is expected (an optional number is a set of at most  *)
(* one integer).  A dict is a function; dict.get(k, d) is Get.             *)
(***************************************************************************)
PyNone == "<None>"
NoneText == <<"<None>">>
NoDict == <<>>
\* a lookup that gives the empty text for a key the table lacks
Get_empty_when_missing(d, k, default) == IF k \in DOMAIN d THEN d[k] ELSE ""

\* dict.get(k, default)
Get(d, k, default) == IF k \in DOMAIN d THEN d[k] ELSE default
\* a merge that keeps the value already there
Update_keep_computed(d, e) == d @@ e

\* dict.update(e)
Update(d, e) == e @@ d
Truthy(v) == v # PyNone /\ v # ""
TheNum(s) == CHOOSE x \in s : TRUE

(***************************************************************************)
(* endpoints.py: the parameter tables.                                     *)
(***************************************************************************)
SEARCH_URL == "https://www.startpage.com/sp/search"
SUGGESTIONS_URL == "https://www.startpage.com/suggestions"

\* a request URL: an endpoint and the parameters of its query string
Url(endpoint, query_string) == [endpoint |-> endpoint, query_string |-> query_string]

SEARCH_CATEGORIES ==
    [web |-> "web", images |-> "pics", videos |-> "video", news |-> "news",
     places |-> "map"]

LANGUAGE_CODES ==
    [english |-> "en", german |-> "de", french |-> "fr", spanish |-> "es",
     italian |-> "it", dutch |-> "nl", portuguese |-> "pt", russian |-> "ru",
     chinese |-> "zh", japanese |-> "ja"]

REGION_CODES ==
    [all |-> "all", us |-> "us", uk |-> "uk", ca |-> "ca", au |-> "au",
     de |-> "de", fr |-> "fr", es |-> "es", it |-> "it", nl |-> "nl"]

SAFE_SEARCH_LEVELS == [strict |-> "1", moderate |-> "0", off |-> "2"]

TIME_FILTERS == [any |-> "", day |-> "d", week |-> "w", month |-> "m", year |-> "y"]

IMAGE_SIZES == [any |-> "", small |-> "s", medium |-> "m", large |-> "l", wallpaper |-> "w"]

VIDEO_DURATIONS == [any |-> "", short |-> "s", medium |-> "m", long |-> "l"]

ADVANCED_SEARCH_PARAMS ==
    [search_source |-> "sc", search_results |-> "sr",
     search_expander_api_path |-> "sxap",
     query_instant_mode_search_number |-> "qimsn",
     time_filter |-> "with_date", ad_block_plus |-> "abp",
     search_type_modifier |-> "t"]


(***************************************************************************)
(* Documents.  A response body or a page is the empty text, a JSON text    *)
(* (its parsed value is data), or markup (its elements in document order). *)
(* JSON values are tagged: str, num, bool, null, obj, list.                *)
(***************************************************************************)
EmptyDoc == [kind |-> "empty", data |-> [t |-> "null"], elems |-> <<>>]
JsonDoc(d) == [kind |-> "json", data |-> d, elems |-> <<>>]
MarkupDoc(es) == [kind |-> "markup", data |-> [t |-> "null"], elems |-> es]
GarbageDoc == MarkupDoc(<<>>)

JStr(s) == [t |-> "str", v |-> s]
JNum(n) == [t |-> "num", n |-> n]
JBool(b) == [t |-> "bool", b |-> b]
JNull == [t |-> "null"]
JObj == [t |-> "obj"]
JList(xs) == [t |-> "list", items |-> xs]

(***************************************************************************)
(* client.py: the throttle.  t is the clock when _respect_delay starts,    *)
(* late is how far the second clock reading is behind schedule (a sleep    *)
(* lasts at least as long as asked).  The value is the timestamp stored    *)
(* in last_request_time.                                                   *)
(***************************************************************************)
_respect_delay_nosleep(t, last, d, late) == t + late

_respect_delay(t, last, d, late) ==
    LET current_time == t
        time_since_last == current_time - last
    IN  IF time_since_last < d
        THEN current_time + (d - time_since_last) + late
        ELSE current_time + late

(***************************************************************************)
(* client.py: what urllib gives _make_request.  k is "response",           *)
(* "HTTPError" (with its code), "URLError" (connection, DNS, connect       *)
(* timeout) or "Exception" (anything else raised inside the try block).    *)
(* A response has a content-encoding header and a content that is the      *)
(* document itself or its gzip compression.                                *)
(***************************************************************************)
HttpCodes == {429, 500}

RawResponse(enc, gz, doc) ==
    [k |-> "response", code |-> 200, encoding |-> enc, gzipped |-> gz, doc |-> doc]
RawFailure(k, code) ==
    [k |-> k, code |-> code, encoding |-> "", gzipped |-> FALSE, doc |-> EmptyDoc]

RawOutcomes(docs) ==
    {RawResponse("", FALSE, d) : d \in docs}
    \cup {RawResponse("gzip", gz, d) : gz \in BOOLEAN, d \in docs \ {EmptyDoc}}
    \cup {RawResponse("", TRUE, EmptyDoc)}
    \cup {RawFailure("HTTPError", c) : c \in HttpCodes}
    \cup {RawFailure("URLError", 0), RawFailure("Exception", 0)}

Raised(exc, code, msg) ==
    [exc |-> exc, code |-> code, msg |-> msg, cause |-> "", value |-> EmptyDoc]
Wrapped(exc, msg, inner) ==
    [exc |-> exc, code |-> 0, msg |-> msg, cause |-> inner.exc, value |-> EmptyDoc]
Returned(v) == [exc |-> "none", code |-> 0, msg |-> "", cause |-> "", value |-> v]

\* lines 182-187: read, gunzip when the header says gzip, decode
decode_body(raw) ==
    IF raw.encoding = "gzip"
    THEN IF raw.gzipped
         THEN Returned(raw.doc)
         ELSE Raised("StartpageError", 0, "Request failed due to an unexpected error")
    ELSE IF raw.gzipped THEN Returned(GarbageDoc) ELSE Returned(raw.doc)

_make_request_no429(raw) ==
    CASE raw.k = "HTTPError" -> Raised("StartpageHTTPError", raw.code, "HTTP error")
      [] raw.k = "URLError" -> Raised("StartpageError", 0, "Network error")
      [] raw.k = "Exception" ->
            Raised("StartpageError", 0, "Request failed due to an unexpected error")
      [] OTHER -> decode_body(raw)

\* lines 163-198: the outcome of the try block and its except clauses
_make_request(raw) ==
    CASE raw.k = "HTTPError" ->
            IF raw.code = 429
            THEN Raised("StartpageRateLimitError", 0, "Rate limit exceeded")
            ELSE Raised("StartpageHTTPError", raw.code, "HTTP error")
      [] raw.k = "URLError" -> Raised("StartpageError", 0, "Network error")
      [] raw.k = "Exception" ->
            Raised("StartpageError", 0, "Request failed due to an unexpected error")
      [] OTHER -> decode_body(raw)

\* lines 164-180: the Request object and the opener it goes through
Request(url, data) ==
    [method |-> IF data # NoDict THEN "POST" ELSE "GET",
     url |-> url,
     data |-> data,
     via |-> IF Truthy(proxy) THEN "proxy" ELSE "direct"]
NotSent == [method |-> "none", url |-> Url("", NoDict), data |-> NoDict, via |-> "none"]

urlopen_again_on_error(w, stamp, raw) ==
    IF raw.k = "response" THEN Append(w, stamp) ELSE Append(Append(w, stamp), stamp)

\* lines 178-180: the request is opened once, whatever comes back; w holds
\* the throttle timestamp of every request opened so far
urlopen(w, stamp, raw) == Append(w, stamp)

\* a timestamp that is taken back when the request fails
recorded_timestamp_rolled_back(stamp, last, raw) ==
    IF raw.k = "response" THEN stamp ELSE last

\* line 157 runs _respect_delay before the try block of lines 163-198, and
\* no except clause assigns last_request_time: the timestamp of line 128
\* stays whatever urllib gave
recorded_timestamp(stamp, last, raw) == stamp

\* _make_request as a step: throttle, record the timestamp, send once
MakeRequest(raw, late) ==
    LET stamp == _respect_delay(now, last_request_time, delay, late) IN
    /\ Len(wire) < MaxRequests
    /\ stamp <= MaxTime
    /\ last_request_time' = recorded_timestamp(stamp, last_request_time, raw)
    /\ now' = stamp
    /\ wire' = urlopen(wire, stamp, raw)
    /\ UNCHANGED <<delay, proxy, timeout>>

NoRequest == UNCHANGED <<now, last_request_time, delay, proxy, timeout, wire>>

(***************************************************************************)
(* client.py: the request builder.  a is the record of the arguments of    *)
(* _build_search_params; a.kwargs are the caller's extra wire parameters.  *)
(***************************************************************************)
is_blank_only_when_empty(text) == text = <<>>

\* `not query.strip()`: lines 222, 766 and 869
is_blank(text) == strip(text) = <<>>

pagination_offset_by_page(page, results_per_page) == page * results_per_page

\* line 233: Startpage's startat is 0-indexed
pagination_offset(page, results_per_page) == (page - 1) * results_per_page

query_unstripped(query) == query

\* line 226
query_param(query) == strip(query)

_build_search_params(a) ==
    IF is_blank(a.query)
    THEN [exc |-> "ValueError", params |-> NoDict]
    ELSE
    LET language_code == Get(LANGUAGE_CODES, a.language, a.language)
        p0 == [query |-> query_param(a.query),
               cat |-> a.category,
               cmd |-> "process_search",
               language |-> language_code,
               lui |-> language_code,
               pl |-> Get(REGION_CODES, a.region, a.region),
               startat |-> str_int(pagination_offset(a.page, a.results_per_page))]
        p1 == IF Truthy(a.safe_search) /\ a.category \notin {"news", "places"}
              THEN ("ff" :> Get(SAFE_SEARCH_LEVELS, a.safe_search, "0")) @@ p0
              ELSE p0
        p2 == IF a.category = "web"
              THEN ("num" :> str_int(a.results_per_page)) @@ p1
              ELSE p1
        p3 == IF Truthy(a.time_filter) /\ a.time_filter # "any"
                 /\ a.category \in {"web", "video", "news"}
              THEN ("with_date" :> Get(TIME_FILTERS, a.time_filter, a.time_filter)) @@ p2
              ELSE p2
        p4 == IF Truthy(a.size) /\ a.size # "any" /\ a.category = "images"
              THEN ("size" :> Get(IMAGE_SIZES, a.size, a.size)) @@ p3
              ELSE p3
        p5 == IF Truthy(a.duration) /\ a.duration # "any" /\ a.category = "video"
              THEN ("duration" :> Get(VIDEO_DURATIONS, a.duration, a.duration)) @@ p4
              ELSE p4
        p6 == IF a.latitude # {} /\ a.longitude # {} /\ a.category = "places"
              THEN ("latitude" :> str_int(TheNum(a.latitude)))
                   @@ ("longitude" :> str_int(TheNum(a.longitude))) @@ p5
              ELSE p5
        p7 == IF a.radius # {} /\ a.category = "places"
              THEN ("radius" :> str_int(TheNum(a.radius))) @@ p6
              ELSE p6
    IN  [exc |-> "none", params |-> Update(p7, a.kwargs)]

(***************************************************************************)
(* parser.py: _normalize_url.  An absent (None) URL and the empty text     *)
(* take the same branch and are both <<>>.                                 *)
(***************************************************************************)
_STARTPAGE_BASE_URL ==
    <<"h", "t", "t", "p", "s", ":", "/", "/", "w", "w", "w", ".", "s", "t", "a",
      "r", "t", "p", "a", "g", "e", ".", "c", "o", "m">>

_normalize_url_doubled_slash(url, base_url) ==
    IF url = <<>> THEN <<>>
    ELSE LET u == strip(url) IN
         IF startswith(u, <<"/", "/">>) THEN <<"h", "t", "t", "p", "s", ":">> \o u
         ELSE IF startswith(u, <<"/">>) THEN base_url \o u
         ELSE u

_normalize_url(url, base_url) ==
    IF url = <<>> THEN <<>>
    ELSE LET u == strip(url) IN
         IF startswith(u, <<"/", "/">>) THEN <<"h", "t", "t", "p", "s", ":">> \o u
         ELSE IF startswith(u, <<"/">>)
              THEN IF endswith(base_url, <<"/">>) /\ startswith(u, <<"/">>)
                   THEN base_url \o Tail(u)
                   ELSE base_url \o u
         ELSE u

(***************************************************************************)
(* parser.py: _extract_text on the raw text of an element: non-breaking    *)
(* spaces become spaces, runs of whitespace become one space, the ends     *)
(* are stripped.                                                           *)
(***************************************************************************)
RECURSIVE collapse(_)
collapse(s) ==
    IF Len(s) < 2 THEN s
    ELSE IF s[1] \in Whitespace /\ s[2] \in Whitespace THEN collapse(Tail(s))
    ELSE <<IF s[1] \in Whitespace THEN " " ELSE s[1]>> \o collapse(Tail(s))

_extract_text(raw) == strip(collapse(raw))

(***************************************************************************)
(* parser.py: parse_suggestions.  An element of a markup document has a    *)
(* tag, one class name, a role, the attributes value and data-suggestion   *)
(* (<<>> when absent) and its raw text.                                    *)
(***************************************************************************)
MaxSuggestions == 10

Elem(tag, class, role, value, data, text) ==
    [tag |-> tag, class |-> class, role |-> role, value |-> value,
     data_suggestion |-> data, text |-> text]

Min(x, y) == IF x < y THEN x ELSE y
Take(s, n) == SubSeq(s, 1, Min(n, Len(s)))
Contains(s, x) == \E i \in 1..Len(s) : s[i] = x

\* _safe_json_loads: the parsed value, None (here JNull) when the text is not JSON
_safe_json_loads(doc) == IF doc.kind = "json" THEN doc.data ELSE JNull

\* line 746: isinstance(data, list) and len(data) > 1 and isinstance(data[1], list)
has_json_shape(data) ==
    data.t = "list" /\ Len(data.items) > 1 /\ data.items[2].t = "list"

is_scalar(e) == e.t \in {"str", "num", "bool"}

\* str(s) for a str, an int and a bool
py_str(e) ==
    CASE e.t = "str" -> e.v
      [] e.t = "num" -> str_int(e.n)
      [] e.t = "bool" -> IF e.b THEN <<"T", "r", "u", "e">> ELSE <<"F", "a", "l", "s", "e">>

\* line 747
json_suggestions(data) ==
    LET kept == SelectSeq(data.items[2].items, is_scalar)
    IN  [i \in 1..Len(kept) |-> py_str(kept[i])]

\* the class regex suggest|autocomplete (re.I) over the class names of the model
class_matches_suggest(c) == c \in {"suggestion-item", "autocomplete-suggestion", "x-suggest"}

sel_suggestion_item(e) == e.tag = "li" /\ e.class = "suggestion-item"
sel_autocomplete(e) == e.tag = "div" /\ e.class = "autocomplete-suggestion"
sel_option(e) == e.tag = "option"
sel_role_option(e) == e.tag = "li" /\ e.role = "option"
sel_fallback(e) == e.tag \in {"li", "div"} /\ class_matches_suggest(e.class)

\* lines 760-766
suggestion_elements(elems) ==
    LET found == SelectSeq(elems, sel_suggestion_item) \o SelectSeq(elems, sel_autocomplete)
                 \o SelectSeq(elems, sel_option) \o SelectSeq(elems, sel_role_option)
    IN  IF found # <<>> THEN found ELSE SelectSeq(elems, sel_fallback)

\* line 769
element_text(e) ==
    IF e.value # <<>> THEN e.value
    ELSE IF e.data_suggestion # <<>> THEN e.data_suggestion
    ELSE _extract_text(e.text)

\* lines 768-771
RECURSIVE collect_suggestions(_, _)
collect_suggestions(es, acc) ==
    IF es = <<>> THEN acc
    ELSE LET text == element_text(Head(es)) IN
         collect_suggestions(Tail(es),
             IF text # <<>> /\ strip(text) # <<>> /\ ~Contains(acc, strip(text))
             THEN Append(acc, strip(text))
             ELSE acc)

\* which return statement of parse_suggestions is taken: line 748, 773 or 775
parse_suggestions_path(doc, fault) ==
    IF has_json_shape(_safe_json_loads(doc)) THEN "json"
    ELSE IF fault THEN "except" ELSE "markup"

parse_suggestions_uncapped(doc, fault) ==
    LET data == _safe_json_loads(doc) IN
    IF has_json_shape(data) THEN json_suggestions(data)
    ELSE IF fault THEN <<>>
    ELSE collect_suggestions(suggestion_elements(doc.elems), <<>>)

parse_suggestions(doc, fault) ==
    LET data == _safe_json_loads(doc) IN
    IF has_json_shape(data) THEN Take(json_suggestions(data), MaxSuggestions)
    ELSE IF fault THEN <<>>
    ELSE Take(collect_suggestions(suggestion_elements(doc.elems), <<>>), MaxSuggestions)

(***************************************************************************)
(* parser.py: result pages.  A page is a markup document whose elements    *)
(* are read through the selectors of the parser.  A container carries its  *)
(* tag, one class name and its data-testid, and what the selectors applied *)
(* inside it find: a tag found is Tag(name, text, href), NoTag when        *)
(* nothing matches; an absent attribute or text is NoneText.               *)
(***************************************************************************)
Tag(name, text, href) == [tag |-> name, text |-> text, href |-> href]
NoTag == Tag("none", NoneText, NoneText)

NoInner ==
    [title_tag |-> NoTag, heading_link |-> NoTag, all_links |-> <<>>,
     title_tag_no_a |-> NoTag, parent_link |-> NoTag,
     desc |-> NoneText, paragraph |-> NoneText, display_url |-> NoneText,
     duration |-> NoneText, source |-> NoneText,
     date |-> NoneText, datetime |-> NoneText,
     has_img |-> FALSE, img_data_src |-> NoneText, img_src |-> NoneText,
     img_alt |-> NoneText, caption |-> NoneText,
     result_type |-> "", name_tag |-> NoTag, address |-> NoneText,
     phone |-> NoneText, url_tag |-> NoTag, rating |-> NoneText]

Container(tag, class, testid, inner) ==
    inner @@ NoInner @@ [el |-> "container", testid |-> testid]
    @@ Elem(tag, class, "", <<>>, <<>>, <<>>)

IsContainer(e) == "el" \in DOMAIN e /\ e.el = "container"

\* a <script>: its type attribute, the objects the image regex of line 377
\* finds in its text, and its text read as linked data
Script(type, objects, ld) ==
    [el |-> "script", type |-> type, objects |-> objects, ld |-> ld]
    @@ Elem("script", "", "", <<>>, <<>>, <<>>)

IsScript(e) == "el" \in DOMAIN e /\ e.el = "script"

\* an object found by the image regex: whether it is JSON for a dict, whether
\* its URL values are str, and the values the `or` chains of lines 381-387
\* pick (NoneText when all keys are absent)
ImageObject(is_dict, is_text, image_url, source_url, title) ==
    [is_dict |-> is_dict, is_text |-> is_text, image_url |-> image_url,
     source_url |-> source_url, title |-> title]

\* linked data: the shape of the JSON value and the items lines 620-625
\* take from it; shape "invalid" is a text that is not JSON
LinkedData(shape, items) == [shape |-> shape, items |-> items]
NoLinkedData == LinkedData("invalid", <<>>)

\* an item of linked data: a dict or not, its @type, name, address, url and
\* ratingValue (NoneText when absent), and whether int() accepts its
\* reviewCount (or it has none)
PlaceItem(is_dict, type, name, address, url, rating, count_ok) ==
    [is_dict |-> is_dict, type |-> type, name |-> name, address |-> address,
     url |-> url, rating |-> rating, count_ok |-> count_ok]

\* the elements BeautifulSoup finds in a text: none unless it is markup
elements(html) == IF html.kind = "markup" THEN html.elems ELSE <<>>

\* tag.get("href") or the text of a tag, None and absent read as ""
attr(value) == IF value = NoneText THEN <<>> ELSE value
text_of(t) == IF t = NoTag THEN <<>> ELSE _extract_text(attr(t.text))
url_of(t) == _normalize_url(attr(t.href), _STARTPAGE_BASE_URL)

\* for selector in selectors: found = soup.select(selector); if found: break
\* selected[i] is what the i-th selector finds
RECURSIVE first_selection(_, _)
first_selection(selected, i) ==
    IF i > Len(selected) THEN <<>>
    ELSE IF selected[i] # <<>> THEN selected[i] ELSE first_selection(selected, i + 1)

\* str.split(" ")[0]
RECURSIVE first_word(_)
first_word(s) ==
    IF s = <<>> \/ Head(s) = " " THEN <<>> ELSE <<Head(s)>> \o first_word(Tail(s))

\* re.match(r"https?://([^/]+)", url).group(1), "" when there is no match
RECURSIVE upto_slash(_)
upto_slash(s) ==
    IF s = <<>> \/ Head(s) = "/" THEN <<>> ELSE <<Head(s)>> \o upto_slash(Tail(s))

url_host(url) ==
    LET http == <<"h", "t", "t", "p", ":", "/", "/">>
        https == <<"h", "t", "t", "p", "s", ":", "/", "/">>
    IN  IF startswith(url, https) THEN upto_slash(SubSeq(url, Len(https) + 1, Len(url)))
        ELSE IF startswith(url, http) THEN upto_slash(SubSeq(url, Len(http) + 1, Len(url)))
        ELSE <<>>

\* lines 276-283
web_selector(i, e) ==
    CASE i = 1 -> e.tag = "div" /\ e.class = "w-gl-result"
      [] i = 2 -> e.tag = "div" /\ e.class = "result"
      [] i = 3 -> e.tag = "article" /\ e.class = "result-item"
      [] i = 4 -> e.tag = "div" /\ e.testid = "result-item"
      [] i = 5 -> e.tag = "div" /\ e.class = "search-result-item"
      [] i = 6 -> e.tag = "section" /\ e.class = "web-result"

\* lines 295-296: a div with a heading link that has an href and with a
\* paragraph or a snippet
web_fallback(e) ==
    /\ IsContainer(e) /\ e.tag = "div"
    /\ e.title_tag.tag = "a" /\ e.title_tag.href # NoneText
    /\ (e.paragraph # NoneText \/ e.desc # NoneText)

\* lines 285-297
web_containers(elems) ==
    LET result_elements == first_selection([i \in 1..6 |-> SelectSeq(elems, LAMBDA e : IsContainer(e) /\ web_selector(i, e))], 1)
    IN  IF result_elements # <<>> THEN result_elements
        ELSE SelectSeq(elems, web_fallback)

\* lines 301-306
web_title_tag(container) ==
    IF container.title_tag # NoTag THEN container.title_tag
    ELSE IF container.heading_link # NoTag THEN container.heading_link
    ELSE LET named == SelectSeq(container.all_links, LAMBDA lk : text_of(lk) # <<>>)
         IN  IF named # <<>> THEN Head(named) ELSE NoTag

\* a container without title or URL kept as a record
web_record_keep_incomplete(container) ==
    LET title_tag == web_title_tag(container)
        title == text_of(title_tag)
        url == url_of(title_tag)
        description == _extract_text(attr(IF container.desc # NoneText THEN container.desc
                                          ELSE container.paragraph))
        cited == IF container.display_url # NoneText
                 THEN first_word(_extract_text(container.display_url)) ELSE <<>>
        display_url == IF cited = <<>> /\ url # <<>> THEN url_host(url) ELSE cited
    IN  IF title_tag = NoTag THEN <<>>
        ELSE <<[title |-> title, url |-> url, description |-> description,
                display_url |-> display_url]>>

\* lines 299-339: the record of one container, none when it is skipped
web_record(container) ==
    LET title_tag == web_title_tag(container)
        title == text_of(title_tag)
        url == url_of(title_tag)
        description == _extract_text(attr(IF container.desc # NoneText THEN container.desc
                                          ELSE container.paragraph))
        cited == IF container.display_url # NoneText
                 THEN first_word(_extract_text(container.display_url)) ELSE <<>>
        display_url == IF cited = <<>> /\ url # <<>> THEN url_host(url) ELSE cited
    IN  IF title_tag = NoTag THEN <<>>
        ELSE IF title = <<>> \/ url = <<>> THEN <<>>
        ELSE <<[title |-> title, url |-> url, description |-> description,
                display_url |-> display_url]>>

\* for container in elements: ... results.append(...)
\* appended[i] is what the loop body appends for the i-th container: one
\* record or nothing
RECURSIVE records_of(_)
records_of(appended) ==
    IF appended = <<>> THEN <<>>
    ELSE Head(appended) \o records_of(Tail(appended))

\* an <a> or <button>: its text, title and aria-label, its class names and
\* whether it has the attribute disabled
Control(tag, text, title, aria_label, classes, disabled) ==
    [el |-> "control", tag |-> tag, text |-> text, title |-> title,
     aria_label |-> aria_label, classes |-> classes, disabled |-> disabled]
    @@ Elem(tag, "", "", <<>>, <<>>, <<>>)
IsControl(e) == "el" \in DOMAIN e /\ e.el = "control"
\* a <nav> or <div> with its role and aria-label and the <a> and <button>
\* tags inside it
Nav(tag, role, aria_label, links) ==
    [el |-> "nav", tag |-> tag, role |-> role, aria_label |-> aria_label,
     links |-> links]
    @@ Elem(tag, "", role, <<>>, <<>>, <<>>)
IsNav(e) == "el" \in DOMAIN e /\ e.el = "nav"

\* lines 123-128 over the labels of the model: next, more\s*results, >>,
\* load\s*more, each searched without regard to case
next_page_patterns(label) ==
    label \in {"Next", "next page", "More results", ">>", "Load more"}
\* lines 153-155 over the labels of the model: "next" in the lower-cased
\* text, a closing > or a right arrow
implies_next(label) ==
    label \in {"Next", "next page", ">>", ">"}

\* soup.find over the page: the <a> and <button> tags in document order,
\* those inside a <nav> included
RECURSIVE controls_of(_)
controls_of(elems) ==
    IF elems = <<>> THEN <<>>
    ELSE (IF IsControl(Head(elems)) THEN <<Head(elems)>>
          ELSE IF IsNav(Head(elems)) THEN Head(elems).links
          ELSE <<>>) \o controls_of(Tail(elems))

\* lines 131-160: the first loop returns True for a tag one of the patterns
\* or the class finds (lines 131-141); the first pagination region counts
\* when its last link implies "next" and is not disabled (lines 144-159)
_find_next_page_link(elems) ==
    LET found == controls_of(elems)
        navs == SelectSeq(elems, LAMBDA e : /\ IsNav(e) /\ e.tag \in {"nav", "div"}
                                           /\ e.role = "navigation"
                                           /\ e.aria_label = "pagination")
    IN  \/ \E i \in 1..Len(found) :
              /\ found[i].tag \in {"a", "button"}
              /\ \/ next_page_patterns(found[i].text)
                 \/ next_page_patterns(found[i].title)
                 \/ next_page_patterns(found[i].aria_label)
                 \/ found[i].classes \cap {"next", "pagination-next"} # {}
        \/ /\ navs # <<>>
           /\ Head(navs).links # <<>>
           /\ LET last == Head(navs).links[Len(Head(navs).links)]
              IN  /\ implies_next(last.text)
                  /\ ~last.disabled
                  /\ "disabled" \notin last.classes

\* lines 162-215, followed as far as their result
_extract_total_results(elems) ==
    LET stats == SelectSeq(elems, LAMBDA e : "el" \in DOMAIN e /\ e.el = "stats")
    IN  IF stats = <<>> THEN 0 ELSE Head(stats).count

Page(results, elems) ==
    [results |-> results,
     total_results |-> _extract_total_results(elems),
     has_next_page |-> _find_next_page_link(elems)]

\* lines 273-347
_parse_web_results(html) ==
    Page(records_of([i \in 1..Len(web_containers(elements(html))) |-> web_record(web_containers(elements(html))[i])]), elements(html))

\* re.search(r"(\d{1,2}:\d{2}(?::\d{2})?)", duration): the leftmost match,
\* <<>> when there is none
IsDigit(c) == \E d \in 1..10 : Digits[d] = c

duration_match_at(s, i, m) ==
    LET n == Len(s)
        colon == i + m
    IN  IF /\ colon + 2 <= n
           /\ \A k \in i..(colon - 1) : IsDigit(s[k])
           /\ s[colon] = ":" /\ IsDigit(s[colon + 1]) /\ IsDigit(s[colon + 2])
        THEN IF /\ colon + 5 <= n /\ s[colon + 3] = ":"
                /\ IsDigit(s[colon + 4]) /\ IsDigit(s[colon + 5])
             THEN SubSeq(s, i, colon + 5)
             ELSE SubSeq(s, i, colon + 2)
        ELSE <<>>

RECURSIVE duration_search(_, _)
duration_search(s, i) ==
    IF i > Len(s) THEN <<>>
    ELSE IF duration_match_at(s, i, 2) # <<>> THEN duration_match_at(s, i, 2)
    ELSE IF duration_match_at(s, i, 1) # <<>> THEN duration_match_at(s, i, 1)
    ELSE duration_search(s, i + 1)

\* lines 467-470
video_selector(i, e) ==
    CASE i = 1 -> e.tag = "div" /\ e.class = "video-result-item"
      [] i = 2 -> e.tag = "article" /\ e.class = "video-object"
      [] i = 3 -> e.tag = "div" /\ e.class = "vid-item"
      [] i = 4 -> e.tag = "div" /\ e.class = "search-result-video"

\* lines 471-479; the class regex result.*video over the class names of the model
video_containers(elems) ==
    LET video_elements == first_selection([i \in 1..4 |-> SelectSeq(elems, LAMBDA e : IsContainer(e) /\ video_selector(i, e))], 1)
    IN  IF video_elements # <<>> THEN video_elements
        ELSE SelectSeq(elems, LAMBDA e : /\ IsContainer(e) /\ e.tag = "div"
                                         /\ e.class \in {"result-video", "search-result-video"})

\* lines 481-506
video_record(container) ==
    LET title_tag == container.title_tag
        title == text_of(title_tag)
        url == url_of(title_tag)
        duration == _extract_text(attr(container.duration))
        duration_match == duration_search(duration, 1)
    IN  IF title_tag = NoTag THEN <<>>
        ELSE IF title = <<>> \/ url = <<>> THEN <<>>
        ELSE <<[title |-> title, url |-> url,
                description |-> _extract_text(attr(container.desc)),
                duration |-> IF duration_match # <<>> THEN duration_match ELSE duration]>>

\* lines 464-514
_parse_video_results(html) ==
    Page(records_of([i \in 1..Len(video_containers(elements(html))) |-> video_record(video_containers(elements(html))[i])]), elements(html))

\* lines 533-536
news_selector(i, e) ==
    CASE i = 1 -> e.tag = "article" /\ e.class = "news-item"
      [] i = 2 -> e.tag = "div" /\ e.class = "news-result"
      [] i = 3 -> e.tag = "div" /\ e.class = "story-card"
      [] i = 4 -> e.tag = "div" /\ e.class = "search-result-news"

\* lines 537-545; the class regex news|story|article over the class names of the model
news_containers(elems) ==
    LET news_elements == first_selection([i \in 1..4 |-> SelectSeq(elems, LAMBDA e : IsContainer(e) /\ news_selector(i, e))], 1)
    IN  IF news_elements # <<>> THEN news_elements
        ELSE SelectSeq(elems, LAMBDA e : /\ IsContainer(e) /\ e.tag = "article"
                                         /\ e.class \in {"news-item", "story", "article-x"})

\* line 554: the link around the heading, else the first link of the container
link_for_title(container) ==
    IF container.parent_link # NoTag /\ container.parent_link.href # NoneText
    THEN container.parent_link
    ELSE LET with_href == SelectSeq(container.all_links, LAMBDA lk : lk.href # NoneText)
         IN  IF with_href # <<>> THEN Head(with_href) ELSE NoTag

\* lines 547-585
news_record(container) ==
    LET title_tag == container.title_tag
        title_tag_no_a == container.title_tag_no_a
        found == title_tag # NoTag
                 \/ (title_tag_no_a # NoTag /\ link_for_title(container) # NoTag)
        title == IF title_tag # NoTag THEN text_of(title_tag) ELSE text_of(title_tag_no_a)
        url == IF title_tag # NoTag THEN url_of(title_tag)
               ELSE url_of(link_for_title(container))
        has_date_tag == container.date # NoneText \/ container.datetime # NoneText
        published_date == IF ~has_date_tag THEN <<>>
                          ELSE IF attr(container.datetime) # <<>> THEN container.datetime
                          ELSE _extract_text(attr(container.date))
    IN  IF ~found THEN <<>>
        ELSE IF title = <<>> \/ url = <<>> THEN <<>>
        ELSE <<[title |-> title, url |-> url,
                description |-> _extract_text(attr(container.desc)),
                source |-> _extract_text(attr(container.source)),
                published_date |-> published_date]>>

\* lines 530-593
_parse_news_results(html) ==
    Page(records_of([i \in 1..Len(news_containers(elements(html))) |-> news_record(news_containers(elements(html))[i])]), elements(html))

\* the values of one field over the records of a page
FieldSet(records, f) == {records[i][f] : i \in 1..Len(records)}

Image == <<"I", "m", "a", "g", "e">>

\* lines 378-394 for the objects of one script; an exception (line 395)
\* abandons the rest of the script and keeps what was appended
RECURSIVE image_objects(_, _)
image_objects(objects, results) ==
    IF objects = <<>> THEN results
    ELSE LET data == Head(objects)
             img_url == _normalize_url(attr(data.image_url), _STARTPAGE_BASE_URL)
             src_url == _normalize_url(attr(data.source_url), _STARTPAGE_BASE_URL)
             title == IF attr(data.title) # <<>> THEN data.title ELSE Image
         IN  IF ~data.is_dict THEN image_objects(Tail(objects), results)
             ELSE IF ~data.is_text THEN results
             ELSE IF img_url # <<>> /\ img_url \notin FieldSet(results, "image_url")
             THEN image_objects(Tail(objects),
                      Append(results, [image_url |-> img_url, source_url |-> src_url,
                                       title |-> title]))
             ELSE image_objects(Tail(objects), results)

\* lines 368-396
RECURSIVE image_scripts(_, _)
image_scripts(scripts, results) ==
    IF scripts = <<>> THEN results
    ELSE image_scripts(Tail(scripts), image_objects(Head(scripts).objects, results))

\* lines 399-401
image_selector(i, e) ==
    CASE i = 1 -> e.tag = "div" /\ e.class = "image-result-item"
      [] i = 2 -> e.tag = "div" /\ e.class = "tile"
      [] i = 3 -> e.tag = "figure" /\ e.class = "image-container"
      [] i = 4 -> e.tag = "div" /\ e.class = "img-result"

\* for selector in selectors: found = soup.select(selector); if found: extend
RECURSIVE every_selection(_, _)
every_selection(selected, i) ==
    IF i > Len(selected) THEN <<>>
    ELSE selected[i] \o every_selection(selected, i + 1)

\* lines 402-410; the class regex image|img|pic over the class names of the model
image_containers(elems) ==
    LET image_elements == every_selection([i \in 1..4 |-> SelectSeq(elems, LAMBDA e : IsContainer(e) /\ image_selector(i, e))], 1)
    IN  IF image_elements # <<>> THEN image_elements
        ELSE SelectSeq(elems, LAMBDA e : /\ IsContainer(e) /\ e.tag = "div"
                                         /\ e.class \in {"image-result-item", "img-result",
                                                         "image", "pic-x"})

\* lines 413-442
RECURSIVE image_items(_, _)
image_items(containers, results) ==
    IF containers = <<>> THEN results
    ELSE LET item_container == Head(containers)
             img_url == _normalize_url(
                            IF attr(item_container.img_data_src) # <<>>
                            THEN item_container.img_data_src
                            ELSE attr(item_container.img_src), _STARTPAGE_BASE_URL)
             title == IF attr(item_container.img_alt) # <<>> THEN item_container.img_alt
                      ELSE IF _extract_text(attr(item_container.caption)) # <<>>
                      THEN _extract_text(attr(item_container.caption))
                      ELSE Image
             link_tag == link_for_title(item_container)
         IN  IF ~item_container.has_img THEN image_items(Tail(containers), results)
             ELSE IF img_url = <<>> \/ img_url \in FieldSet(results, "image_url")
             THEN image_items(Tail(containers), results)
             ELSE image_items(Tail(containers),
                      Append(results, [image_url |-> img_url,
                                       source_url |-> url_of(link_tag),
                                       title |-> strip(title)]))

\* the <img> traversal made whatever the scripts gave
_parse_image_results_both_passes(html) ==
    LET elems == elements(html)
        embedded == image_scripts(SelectSeq(elems, IsScript), <<>>)
    IN  Page(image_items(image_containers(elems), embedded), elems)

\* lines 364-448
_parse_image_results(html) ==
    LET elems == elements(html)
        embedded == image_scripts(SelectSeq(elems, IsScript), <<>>)
    IN  Page(IF embedded # <<>> THEN embedded
             ELSE image_items(image_containers(elems), <<>>), elems)

\* str.lower() over the letters of the model
lower_char(c) ==
    CASE c = "A" -> "a" [] c = "B" -> "b" [] c = "C" -> "c" [] OTHER -> c
lower(text) == [i \in 1..Len(text) |-> lower_char(text[i])]

\* an identifier that tells upper case from lower case
identifier_of_case_sensitive(name, address) == name \o <<"|">> \o address

\* lines 650 and 698: f"{name}|{address}".lower()
identifier_of(name, address) == lower(name \o <<"|">> \o address)
identifiers(results) ==
    {identifier_of(results[i].name, results[i].address) : i \in 1..Len(results)}

PlaceTypes == {"Place", "LocalBusiness", "Restaurant", "Store", "Hotel", "PostalAddress"}

\* lines 627-671 for the items of one script; an exception (line 672)
\* abandons the rest of the script and keeps what was appended
RECURSIVE place_items(_, _)
place_items(items, results) ==
    IF items = <<>> THEN results
    ELSE LET item == Head(items)
             name == IF attr(item.name) = <<>> /\ item.type = "PostalAddress"
                     THEN <<"A", "d", "d", "r", "e", "s", "s">>
                     ELSE attr(item.name)
             addr_str == attr(item.address)
         IN  IF ~item.is_dict THEN results
             ELSE IF item.type \notin PlaceTypes THEN place_items(Tail(items), results)
             ELSE IF name = <<>> THEN place_items(Tail(items), results)
             ELSE IF identifier_of(name, addr_str) \in identifiers(results)
             THEN place_items(Tail(items), results)
             ELSE IF ~item.count_ok THEN results
             ELSE place_items(Tail(items),
                      Append(results,
                          [name |-> name, address |-> addr_str,
                           url |-> _normalize_url(attr(item.url), _STARTPAGE_BASE_URL),
                           rating |-> item.rating, data_source |-> "ld+json"]))

\* lines 614-673
RECURSIVE place_scripts(_, _)
place_scripts(scripts, results) ==
    IF scripts = <<>> THEN results
    ELSE LET script == Head(scripts) IN
         place_scripts(Tail(scripts),
             IF script.type = "application/ld+json" /\ script.ld.shape # "invalid"
             THEN place_items(script.ld.items, results)
             ELSE results)

\* lines 676-679
place_selector(i, e) ==
    CASE i = 1 -> e.tag = "div" /\ e.class = "place-card"
      [] i = 2 -> e.tag = "article" /\ e.class = "local-result"
      [] i = 3 -> e.tag = "div" /\ e.result_type = "local"
      [] i = 4 -> e.tag = "div" /\ e.class = "place-result"
      [] i = 5 -> e.tag = "div" /\ e.class = "location-card"

\* lines 680-687; the class regex result.*(place|local|map|location) over the
\* class names of the model
place_containers(elems) ==
    LET place_elements == every_selection([i \in 1..5 |-> SelectSeq(elems, LAMBDA e : IsContainer(e) /\ place_selector(i, e))], 1)
    IN  IF place_elements # <<>> THEN place_elements
        ELSE SelectSeq(elems, LAMBDA e : /\ IsContainer(e) /\ e.tag = "div"
                                         /\ e.class \in {"result-place", "result-map"})

\* re.search(r"([0-9.]+)", text).group(1): the first run of digits and dots
RECURSIVE number_run(_)
number_run(s) ==
    IF s = <<>> \/ ~(IsDigit(Head(s)) \/ Head(s) = ".") THEN <<>>
    ELSE <<Head(s)>> \o number_run(Tail(s))

RECURSIVE rating_search(_)
rating_search(s) ==
    IF s = <<>> THEN <<>>
    ELSE IF number_run(s) # <<>> THEN number_run(s) ELSE rating_search(Tail(s))

\* lines 689-720
RECURSIVE place_cards(_, _)
place_cards(containers, results) ==
    IF containers = <<>> THEN results
    ELSE LET container == Head(containers)
             name == text_of(container.name_tag)
             address == _extract_text(attr(container.address))
             url_tag == IF container.url_tag # NoTag THEN container.url_tag
                        ELSE IF container.name_tag # NoTag THEN link_for_title(container)
                        ELSE NoTag
             rating_text == _extract_text(attr(container.rating))
             rating == IF rating_search(rating_text) # <<>> THEN rating_search(rating_text)
                       ELSE rating_text
         IN  IF name = <<>> THEN place_cards(Tail(containers), results)
             ELSE IF identifier_of(name, address) \in identifiers(results)
             THEN place_cards(Tail(containers), results)
             ELSE place_cards(Tail(containers),
                      Append(results,
                          [name |-> name, address |-> address, url |-> url_of(url_tag),
                           rating |-> IF rating # <<>> THEN rating ELSE NoneText,
                           data_source |-> "html"]))

\* lines 610-728; of a place record the name, address, url, rating and
\* data_source are followed
_parse_places_results(html) ==
    LET elems == elements(html)
        linked == place_scripts(SelectSeq(elems, IsScript), <<>>)
    IN  Page(IF linked # <<>> THEN linked
             ELSE place_cards(place_containers(elems), <<>>), elems)

(***************************************************************************)
(* parser.py: the dispatcher.  fault says that the category method raises  *)
(* (for instance bs4.FeatureNotFound from BeautifulSoup(html, "lxml")).    *)
(***************************************************************************)
parser_method_map ==
    [web |-> "_parse_web_results", images |-> "_parse_image_results",
     videos |-> "_parse_video_results", news |-> "_parse_news_results",
     places |-> "_parse_places_results"]

\* lines 238-246
category_parser(method, html, fault) ==
    IF fault THEN Raised("FeatureNotFound", 0, "parser failure")
    ELSE Returned(CASE method = "_parse_web_results" -> _parse_web_results(html)
                    [] method = "_parse_image_results" -> _parse_image_results(html)
                    [] method = "_parse_video_results" -> _parse_video_results(html)
                    [] method = "_parse_news_results" -> _parse_news_results(html)
                    [] method = "_parse_places_results" -> _parse_places_results(html))

parse_search_results_no_empty_check(html, search_type, fault) ==
    LET inner == IF search_type \in DOMAIN parser_method_map
                 THEN category_parser(parser_method_map[search_type], html, fault)
                 ELSE Raised("StartpageParseError", 0, "Unknown search type for parsing")
    IN  IF inner.exc # "none"
        THEN Wrapped("StartpageParseError", "Failed to parse results", inner)
        ELSE inner

parse_search_results(html, search_type, fault) ==
    IF html.kind = "empty"
    THEN Raised("StartpageParseError", 0, "Cannot parse empty HTML content.")
    ELSE LET inner ==
                 IF search_type \in DOMAIN parser_method_map
                 THEN category_parser(parser_method_map[search_type], html, fault)
                 ELSE Raised("StartpageParseError", 0, "Unknown search type for parsing")
         IN  IF inner.exc # "none"
             THEN Wrapped("StartpageParseError", "Failed to parse results", inner)
             ELSE inner

(***************************************************************************)
(* client.py: the facade.  Each <name>_call is the record of arguments a   *)
(* facade method hands to _perform_search_request; arguments it does not   *)
(* pass take the defaults of lines 269-279.  kwargs are extra wire         *)
(* parameters, none of them a parameter name of the methods themselves.    *)
(***************************************************************************)
DefaultTimeout == 30

PerformDefaults ==
    [language |-> "en", region |-> "all", safe_search |-> "moderate", page |-> 1,
     results_per_page |-> 10, time_filter |-> PyNone, size |-> PyNone,
     duration |-> PyNone, latitude |-> {}, longitude |-> {}, radius |-> {},
     kwargs |-> NoDict]

search_call(query, language, region, safe_search, time_filter, page, results_per_page, kwargs) ==
    [query |-> query, category |-> "web", category_for_parser |-> "web",
     language |-> language, region |-> region, safe_search |-> safe_search,
     page |-> page, results_per_page |-> results_per_page,
     time_filter |-> time_filter, kwargs |-> kwargs] @@ PerformDefaults

images_search_call(query, language, region, safe_search, size, page, results_per_page, kwargs) ==
    [query |-> query, category |-> "pics", category_for_parser |-> "images",
     language |-> language, region |-> region, safe_search |-> safe_search,
     page |-> page, results_per_page |-> results_per_page,
     size |-> size, kwargs |-> kwargs] @@ PerformDefaults

videos_search_call(query, language, region, safe_search, duration, time_filter, page, results_per_page, kwargs) ==
    [query |-> query, category |-> "video", category_for_parser |-> "videos",
     language |-> language, region |-> region, safe_search |-> safe_search,
     page |-> page, results_per_page |-> results_per_page,
     duration |-> duration, time_filter |-> time_filter, kwargs |-> kwargs] @@ PerformDefaults

news_search_call(query, language, region, time_filter, page, results_per_page, kwargs) ==
    [query |-> query, category |-> "news", category_for_parser |-> "news",
     language |-> language, region |-> region, safe_search |-> PyNone,
     page |-> page, results_per_page |-> results_per_page,
     time_filter |-> time_filter, kwargs |-> kwargs] @@ PerformDefaults

places_search_call(query, language, region, latitude, longitude, radius, page, results_per_page, kwargs) ==
    [query |-> query, category |-> "map", category_for_parser |-> "places",
     language |-> language, region |-> region, safe_search |-> PyNone,
     page |-> page, results_per_page |-> results_per_page,
     latitude |-> latitude, longitude |-> longitude, radius |-> radius,
     kwargs |-> kwargs] @@ PerformDefaults

\* lines 873-887: kwargs is the sequence of the caller's (key, value) pairs
RECURSIVE advanced_params(_, _)
advanced_params(kwargs, params) ==
    IF kwargs = <<>> THEN params
    ELSE LET key == Head(kwargs)[1]
             value == Head(kwargs)[2]
         IN  advanced_params(Tail(kwargs),
                 IF key \in DOMAIN ADVANCED_SEARCH_PARAMS
                 THEN (ADVANCED_SEARCH_PARAMS[key] :> value) @@ params
                 ELSE IF key \in DOMAIN params THEN (key :> value) @@ params
                 ELSE params)

Without(d, keys) == [k \in (DOMAIN d) \ keys |-> d[k]]

\* the caller's options handed on under their own names
advanced_search_call_unmapped(query, kwargs) ==
    [query |-> strip(query), category |-> "web", category_for_parser |-> "web",
     kwargs |-> [k \in {kwargs[i][1] : i \in 1..Len(kwargs)} |->
                    (CHOOSE i \in 1..Len(kwargs) : kwargs[i][1] = k)]
                @@ [cmd |-> "process_search"]] @@ PerformDefaults

\* lines 893-898
advanced_search_call(query, kwargs) ==
    LET params == advanced_params(kwargs,
                      [query |-> strip(query), cat |-> "web", cmd |-> "process_search"])
    IN  [query |-> params["query"], category |-> params["cat"],
         category_for_parser |-> "web",
         kwargs |-> Without(params, {"query", "cat"})] @@ PerformDefaults

\* what is known of a facade call when it ends: the operation, its query, the
\* request it sent (NotSent when none), what urllib gave it (k = "none" when
\* no request was sent) and the outcome
NoRaw == RawFailure("none", 0)
Result(op, query, sent, raw, outcome) ==
    [op |-> op, query |-> query, sent |-> sent, raw |-> raw] @@ outcome

\* lines 311-329
_perform_search_request(op, a, raw, late, fault) ==
    LET built == _build_search_params(a) IN
    /\ IF built.exc # "none"
       THEN /\ ret' = Result(op, a.query, NotSent, NoRaw,
                              Raised(built.exc, 0, "Query cannot be empty."))
            /\ NoRequest
       ELSE /\ MakeRequest(raw, late)
            /\ LET response == _make_request(raw) IN
               ret' = Result(op, a.query, Request(Url(SEARCH_URL, NoDict), built.params), raw,
                          IF response.exc # "none" THEN response
                          ELSE parse_search_results(response.value,
                                                    a.category_for_parser, fault))
    /\ UNCHANGED <<job, out, tasks>>

(***************************************************************************)
(* Inputs of the facade operations.                                        *)
(***************************************************************************)
Queries == {<<>>, <<" ">>, <<" ", "a">>}
ClientPages == {2}
ClientExtras == {("sc" :> "x")}
UrlSearchTypes == {"images", "bogus"}
UrlExtras == {NoDict, ("cat" :> "x")}
AdvancedKwargs == {<< <<"time_filter", "d">>, <<"language", "de">> >>}

SuggestionDoc ==
    JsonDoc(JList(<<JStr(<<"a">>), JList(<<JStr(<<"a", "b">>), JStr(<<"a", "c">>)>>)>>))
OptionDoc == MarkupDoc(<<Elem("option", "", "", <<"a">>, <<>>, <<"a">>)>>)
ClientDocs == {EmptyDoc, OptionDoc}
Lateness == 0..MaxJitter

\* what the surroundings contribute to one call: urllib's outcome, the
\* lateness of the clock, and whether the HTML library fails.  A call with
\* a blank query never looks at them.
Environments ==
    {[raw |-> raw, late |-> late, fault |-> fault] :
        raw \in RawOutcomes(ClientDocs), late \in Lateness, fault \in BOOLEAN}
QuietEnvironment == [raw |-> RawResponse("", FALSE, EmptyDoc), late |-> 0, fault |-> FALSE]
EnvFor(query) ==
    IF strip(query) = <<>> THEN {QuietEnvironment}
    ELSE {e \in Environments : e.fault => (e.raw.k = "response" /\ e.raw.doc # EmptyDoc)}

\* the category facades share _perform_search_request with search, so they
\* are followed through one outcome of each kind: a page, a rate limit and a
\* network error, at every lateness
CategoryEnvironments ==
    {e \in Environments :
        /\ ~e.fault
        /\ e.raw \in {RawResponse("", FALSE, OptionDoc), RawFailure("HTTPError", 429),
                      RawFailure("URLError", 0)}}
CategoryEnvFor(query) ==
    IF strip(query) = <<>> THEN {QuietEnvironment} ELSE CategoryEnvironments

NoPanel == [title |-> NoneText, description |-> NoneText, source |-> "none"]
Panel(title, description) ==
    [title |-> title, description |-> description, source |-> "Startpage Knowledge"]
Detections ==
    {[instant_answer |-> ia, knowledge_panel |-> kp] :
        ia \in {NoneText, <<"a">>},
        kp \in {NoPanel, Panel(<<"t">>, <<"a", "b">>), Panel(<<>>, <<"a", "b">>)}}
DetectionsIn(doc) ==
    IF doc.kind = "markup" /\ doc.elems # <<>> THEN Detections
    ELSE {[instant_answer |-> NoneText, knowledge_panel |-> NoPanel]}

IsSubstr(x, y) == \E i \in 0..(Len(y) - Len(x)) : SubSeq(y, i + 1, i + Len(x)) = x

\* the containment test made in one direction only
assemble_instant_answers_one_way(found) ==
    LET instant_answer == found.instant_answer
        knowledge_panel == found.knowledge_panel
    IN  IF /\ instant_answer # NoneText /\ instant_answer # <<>>
           /\ knowledge_panel # NoPanel
           /\ knowledge_panel.description # <<>>
           /\ IsSubstr(instant_answer, knowledge_panel.description)
        THEN IF knowledge_panel.title # <<>>
             THEN [instant_answer |-> NoneText, knowledge_panel |-> knowledge_panel]
             ELSE [instant_answer |-> instant_answer, knowledge_panel |-> NoPanel]
        ELSE found

\* lines 807-817
assemble_instant_answers(found) ==
    LET instant_answer == found.instant_answer
        knowledge_panel == found.knowledge_panel
    IN  IF /\ instant_answer # NoneText /\ instant_answer # <<>>
           /\ knowledge_panel # NoPanel
           /\ knowledge_panel.description # <<>>
           /\ \/ IsSubstr(instant_answer, knowledge_panel.description)
              \/ IsSubstr(knowledge_panel.description, instant_answer)
        THEN IF knowledge_panel.title # <<>>
             THEN [instant_answer |-> NoneText, knowledge_panel |-> knowledge_panel]
             ELSE [instant_answer |-> instant_answer, knowledge_panel |-> NoPanel]
        ELSE found

(***************************************************************************)
(* The facade operations as steps of one client used sequentially.         *)
(***************************************************************************)
search ==
    \E query \in Queries, page \in ClientPages, kwargs \in {NoDict} :
    \E env \in EnvFor(query) :
        _perform_search_request("search",
            search_call(query, "en", "all", "moderate", "any", page, 10, kwargs),
            env.raw, env.late, env.fault)

images_search ==
    \E query \in Queries, size \in {"large"} :
    \E env \in CategoryEnvFor(query) :
        _perform_search_request("images_search",
            images_search_call(query, "en", "all", "moderate", size, 1, 20, NoDict),
            env.raw, env.late, env.fault)

videos_search ==
    \E query \in Queries, duration \in {"short"} :
    \E env \in CategoryEnvFor(query) :
        _perform_search_request("videos_search",
            videos_search_call(query, "en", "all", "moderate", duration, "any", 1, 10, NoDict),
            env.raw, env.late, env.fault)

news_search ==
    \E query \in Queries, time_filter \in {"day"} :
    \E env \in CategoryEnvFor(query) :
        _perform_search_request("news_search",
            news_search_call(query, "en", "all", time_filter, 1, 10, NoDict),
            env.raw, env.late, env.fault)

places_search ==
    \E query \in Queries, position \in {{48}}, radius \in {{500}} :
    \E env \in CategoryEnvFor(query) :
        _perform_search_request("places_search",
            places_search_call(query, "en", "all", position, position, radius, 1, 10, NoDict),
            env.raw, env.late, env.fault)

\* lines 869-870, then 873-898
advanced_search ==
    \E query \in Queries, kwargs \in AdvancedKwargs :
    \E env \in CategoryEnvFor(query) :
        IF is_blank(query)
        THEN /\ ret' = Result("advanced_search", query, NotSent, NoRaw,
                           Raised("ValueError", 0, "Query cannot be empty for advanced search."))
             /\ NoRequest
             /\ UNCHANGED <<job, out, tasks>>
        ELSE _perform_search_request("advanced_search",
                 advanced_search_call(query, kwargs), env.raw, env.late, env.fault)

suggestions_never_short_circuit(query_part) == FALSE

\* line 555
suggestions_short_circuit(query_part) == strip(query_part) = <<>>

\* lines 555-570
suggestions ==
    \E query_part \in Queries, language \in {"german"} :
    \E env \in EnvFor(query_part) :
        /\ IF suggestions_short_circuit(query_part)
           THEN /\ ret' = Result("suggestions", query_part, NotSent, NoRaw, Returned(<<>>))
                /\ NoRequest
           ELSE LET params == [q |-> strip(query_part), segment |-> "startpage.ucp",
                               format |-> "opensearch",
                               lang |-> Get(LANGUAGE_CODES, language, language)]
                    response == _make_request(env.raw)
                IN  /\ MakeRequest(env.raw, env.late)
                    /\ ret' = Result("suggestions", query_part,
                                  Request(Url(SUGGESTIONS_URL, params), NoDict), env.raw,
                                  IF response.exc # "none" THEN response
                                  ELSE Returned(parse_suggestions(response.value, env.fault)))
        /\ UNCHANGED <<job, out, tasks>>

\* lines 766-817
instant_answers ==
    \E query \in Queries, language \in {"en"}, kwargs \in ClientExtras :
    \E env \in EnvFor(query) :
        /\ IF is_blank(query)
           THEN /\ ret' = Result("instant_answers", query, NotSent, NoRaw,
                              Returned([instant_answer |-> NoneText,
                                        knowledge_panel |-> NoPanel]))
                /\ NoRequest
           ELSE LET language_code == Get(LANGUAGE_CODES, language, language)
                    search_params == Update([query |-> strip(query), cat |-> "web",
                                             cmd |-> "process_search",
                                             language |-> language_code,
                                             lui |-> language_code], kwargs)
                    response == _make_request(env.raw)
                IN  /\ MakeRequest(env.raw, env.late)
                    /\ \E found \in DetectionsIn(response.value) :
                          ret' = Result("instant_answers", query,
                                     Request(Url(SEARCH_URL, NoDict), search_params), env.raw,
                                     IF response.exc # "none" THEN response
                                     ELSE Returned(assemble_instant_answers(found)))
        /\ UNCHANGED <<job, out, tasks>>

\* time passes between two calls
\* lines 836-842: the query as given, the category of the search type or
\* "web", and the caller's parameters last
get_search_url_params(query, search_type, params) ==
    Update([query |-> query, cat |-> Get(SEARCH_CATEGORIES, search_type, "web"),
            cmd |-> "process_search"], params)

\* a URL builder that passes the throttle as a request does
get_search_url_throttled ==
    \E query \in Queries, search_type \in UrlSearchTypes, params \in UrlExtras :
        LET stamp == _respect_delay(now, last_request_time, delay, 0) IN
        /\ stamp <= MaxTime
        /\ ret' = Result("get_search_url", query, NotSent, NoRaw,
                      Returned(Url(SEARCH_URL, get_search_url_params(query, search_type, params))))
        /\ last_request_time' = stamp /\ now' = stamp
        /\ UNCHANGED <<delay, proxy, timeout, wire, job, out, tasks>>

\* lines 819-844: the URL is built and returned, nothing is sent
get_search_url ==
    \E query \in Queries, search_type \in UrlSearchTypes, params \in UrlExtras :
        /\ ret' = Result("get_search_url", query, NotSent, NoRaw,
                      Returned(Url(SEARCH_URL, get_search_url_params(query, search_type, params))))
        /\ NoRequest
        /\ UNCHANGED <<job, out, tasks>>

Tick ==
    /\ now < MaxTime
    /\ now' = now + 1
    /\ UNCHANGED <<last_request_time, delay, proxy, timeout, wire, ret, job, out, tasks>>

\* the constructor arguments followed: every delay up to MaxDelay, with and
\* without a proxy
Constructions ==
    {[delay |-> d, proxy |-> IF d % 2 = 1 THEN "http://localhost:8080" ELSE PyNone,
      timeout |-> DefaultTimeout] : d \in 0..MaxDelay}

NoJob == [fn |-> "none"]
NoOut == [fn |-> "none"]

\* a coroutine that has not called the async facade yet: where it stands
\* (awaiter), where the worker thread of its asyncio.to_thread call stands
\* (thread), and what the thread has read, written and produced
Tasks == 1..MaxTasks
IdleTask ==
    [awaiter |-> "none", thread |-> "none", cancelled_at |-> "none",
     wake_at |-> 0, seen |-> 0, slot |-> 0, raw |-> NoRaw, params |-> NoDict,
     found |-> [instant_answer |-> NoneText],
     result |-> Returned(EmptyDoc), delivered |-> Returned(EmptyDoc)]
NoTasks == [t \in Tasks |-> IdleTask]

\* lines 83-86
Init ==
    /\ now \in {0, MaxDelay + 1}
    /\ last_request_time = 0
    /\ \E c \in Constructions : delay = c.delay /\ proxy = c.proxy /\ timeout = c.timeout
    /\ wire = <<>>
    /\ ret = Result("none", <<>>, NotSent, NoRaw, Returned(EmptyDoc))
    /\ job = NoJob
    /\ out = NoOut
    /\ tasks = NoTasks

Next ==
    \/ search
    \/ images_search
    \/ videos_search
    \/ news_search
    \/ places_search
    \/ advanced_search
    \/ suggestions
    \/ instant_answers
    \/ get_search_url
    \/ Tick

Spec == Init /\ [][Next]_vars

(***************************************************************************)
(* async_client.py: AsyncStartpageClient, a facade over one StartpageAPI.  *)
(* Every method awaits asyncio.to_thread(self.sync_client.<same name>, ...)*)
(* so the synchronous call runs on a worker thread of the default executor *)
(* while the coroutine waits for its result.                               *)
(***************************************************************************)
\* client.py lines 331-898: the public operations of StartpageAPI
SyncOperations ==
    {"search", "images_search", "videos_search", "news_search", "places_search",
     "suggestions", "instant_answers", "advanced_search", "get_search_url"}

\* async_client.py lines 42-302: the methods AsyncStartpageClient defines
AsyncOperations ==
    {"search", "images_search", "videos_search", "news_search", "places_search",
     "suggestions", "instant_answers"}

PerformOperations ==
    {"search", "images_search", "videos_search", "news_search", "places_search"}

\* an argument the caller left out
Omitted == "<omitted>"
Given(v, default) == IF v = Omitted THEN default ELSE v
GivenInt(v, default) == IF v = {} THEN default ELSE CHOOSE n \in v : TRUE

\* the caller's arguments: the query, and language, page and
\* results_per_page either left out or given
Arguments(query, language, page, results_per_page) ==
    [query |-> query, language |-> language, page |-> page,
     results_per_page |-> results_per_page]

\* the defaults of the synchronous signatures (client.py lines 331-340,
\* 371-382, 413-424, 456-465, 497-508, 541 and 739)
sync_call(op, a) ==
    LET language == Given(a.language, "en")
        page == GivenInt(a.page, 1)
    IN  CASE op = "search" ->
                search_call(a.query, language, "all", "moderate", "any", page,
                            GivenInt(a.results_per_page, 10), NoDict)
          [] op = "images_search" ->
                images_search_call(a.query, language, "all", "moderate", "any", page,
                                   GivenInt(a.results_per_page, 20), NoDict)
          [] op = "videos_search" ->
                videos_search_call(a.query, language, "all", "moderate", "any", "any",
                                   page, GivenInt(a.results_per_page, 10), NoDict)
          [] op = "news_search" ->
                news_search_call(a.query, language, "all", "any", page,
                                 GivenInt(a.results_per_page, 10), NoDict)
          [] op = "places_search" ->
                places_search_call(a.query, language, "all", {}, {}, {}, page,
                                   GivenInt(a.results_per_page, 10), NoDict)
          [] OTHER -> [query |-> a.query, language |-> language]

\* async_client.py lines 75-85, 117-126, 160-170, 200-208, 242-252, 272-276
\* and 297-302: every named parameter is passed on by keyword with the async
\* signature's default when the caller left it out; results_per_page is a
\* named parameter of search only and travels in **kwargs elsewhere
async_forward(op, a) ==
    Arguments(a.query, Given(a.language, "en"),
              IF op \in PerformOperations THEN {GivenInt(a.page, 1)} ELSE a.page,
              IF op = "search" THEN {GivenInt(a.results_per_page, 10)}
              ELSE a.results_per_page)

NothingDetected == [instant_answer |-> NoneText, knowledge_panel |-> NoPanel]

\* what the synchronous operation does before any request: client.py lines
\* 311-313 (the builder's ValueError), 555-556 and 766-768
before_request(op, a) ==
    CASE op \in PerformOperations ->
            LET built == _build_search_params(sync_call(op, a)) IN
            [done |-> built.exc # "none",
             outcome |-> Raised(built.exc, 0, "Query cannot be empty.")]
      [] op = "suggestions" ->
            [done |-> suggestions_short_circuit(a.query), outcome |-> Returned(<<>>)]
      [] OTHER ->
            [done |-> is_blank(a.query), outcome |-> Returned(NothingDetected)]

\* what it makes of urllib's outcome: client.py lines 326-329, 565-570 and
\* 781-817
after_response(op, a, raw, found) ==
    LET response == _make_request(raw) IN
    IF response.exc # "none" THEN response
    ELSE CASE op \in PerformOperations ->
                  parse_search_results(response.value,
                                       sync_call(op, a).category_for_parser, FALSE)
           [] op = "suggestions" -> Returned(parse_suggestions(response.value, FALSE))
           [] OTHER -> Returned(assemble_instant_answers(found))

\* the parameters of the request it sends: client.py lines 305-326, 558-563
\* and 770-779
request_params(op, a) ==
    LET language_code == Get(LANGUAGE_CODES, Given(a.language, "en"), Given(a.language, "en")) IN
    CASE op \in PerformOperations -> _build_search_params(sync_call(op, a)).params
      [] op = "suggestions" ->
            [q |-> strip(a.query), segment |-> "startpage.ucp", format |-> "opensearch",
             lang |-> language_code]
      [] OTHER ->
            [query |-> strip(a.query), cat |-> "web", cmd |-> "process_search",
             language |-> language_code, lui |-> language_code]

AsyncQueries == {<<" ">>, <<"a">>}
AsyncArguments ==
    {Arguments(q, Omitted, {}, {}) : q \in AsyncQueries}
        \cup {Arguments(<<"a">>, "de", {2}, {5})}
ArgumentsOf(op, a) ==
    IF op \in {"suggestions", "instant_answers"}
    THEN Arguments(a.query, a.language, {}, {})
    ELSE a
\* one coroutine calling any operation with any of the arguments
AsyncJobs ==
    {[fn |-> "async", op |-> op, args |-> ArgumentsOf(op, a), callers |-> 1] :
        op \in SyncOperations, a \in AsyncArguments}
\* MaxTasks coroutines calling the same operation at once
ConcurrentJobs ==
    {[fn |-> "async", op |-> op, args |-> Arguments(<<"a">>, Omitted, {}, {}),
      callers |-> MaxTasks] : op \in {"search"}}
AsyncRaws == {RawResponse("", FALSE, OptionDoc), RawFailure("HTTPError", 429)}

Edit(t, changes) == tasks' = [tasks EXCEPT ![t] = changes @@ tasks[t]]

\* the cancellation of the awaiting coroutine reaches the running call
cancel_worker_interrupts(thread) == "dropped"

\* asyncio.to_thread hands the call to the executor (async_client.py line
\* 75 and its like): a call still queued is dropped when its future is
\* cancelled, a call a worker thread has started cannot be interrupted
cancel_worker(thread) == IF thread = "queued" THEN "dropped" ELSE thread

\* awaiting the future re-raises what the wrapped exception was
to_thread_result_wrapped(result) ==
    IF result.exc = "none" THEN result
    ELSE Raised("RuntimeError", 0, "worker thread failed")

\* `return await asyncio.to_thread(...)`: the awaiting coroutine gets the
\* value the call returned or the exception it raised (lines 75-85)
to_thread_result(result) == result

\* a coroutine calls the method named job.op of the async facade; tasks are
\* numbered in the order of their calls
AsyncCall(t) ==
    /\ job.fn = "async"
    /\ t <= job.callers
    /\ tasks[t].awaiter = "none"
    /\ \A u \in Tasks : u < t => tasks[u].awaiter # "none"
    /\ IF job.op \in AsyncOperations
       THEN Edit(t, [awaiter |-> "waiting", thread |-> "queued"])
       ELSE Edit(t, [awaiter |-> "got",
                     delivered |-> Raised("AttributeError", 0,
                                          "'AsyncStartpageClient' object has no attribute")])
    /\ UNCHANGED <<now, last_request_time, delay, proxy, timeout, wire, ret, job, out>>

\* a worker thread starts the synchronous call: the checks made before any
\* request, then _respect_delay reads the clock and last_request_time
\* (client.py lines 124-127) and sleeps
WorkerStart(t) ==
    /\ tasks[t].thread = "queued"
    /\ LET a == async_forward(job.op, job.args)
           early == before_request(job.op, a)
           wake_at == _respect_delay(now, last_request_time, delay, 0)
       IN  IF early.done
           THEN Edit(t, [thread |-> "done", result |-> early.outcome])
           ELSE /\ wake_at <= MaxTime
                /\ Edit(t, [thread |-> "sleeping", wake_at |-> wake_at,
                            seen |-> Len(wire)])
    /\ UNCHANGED <<now, last_request_time, delay, proxy, timeout, wire, ret, job, out>>

\* the sleep is over: last_request_time is written (client.py line 128), the
\* request is opened and its outcome handled
WorkerFinish(t) ==
    /\ tasks[t].thread = "sleeping"
    /\ now >= tasks[t].wake_at
    /\ \E raw \in AsyncRaws :
       \E found \in IF job.op = "instant_answers" /\ raw.k = "response"
                    THEN {NothingDetected,
                          [instant_answer |-> <<"a">>,
                           knowledge_panel |-> Panel(<<"t">>, <<"a", "b">>)]}
                    ELSE {NothingDetected} :
          /\ last_request_time' = now
          /\ wire' = urlopen(wire, now, raw)
          /\ Edit(t, [thread |-> "done", slot |-> Len(wire'), raw |-> raw,
                      found |-> found,
                      params |-> request_params(job.op, async_forward(job.op, job.args)),
                      result |-> after_response(job.op, async_forward(job.op, job.args),
                                                raw, found)])
    /\ UNCHANGED <<now, delay, proxy, timeout, ret, job, out>>

\* the event loop resumes the coroutine with the thread's result
Deliver(t) ==
    /\ tasks[t].awaiter = "waiting"
    /\ tasks[t].thread = "done"
    /\ Edit(t, [awaiter |-> "got", delivered |-> to_thread_result(tasks[t].result)])
    /\ UNCHANGED <<now, last_request_time, delay, proxy, timeout, wire, ret, job, out>>

\* the awaiting coroutine is cancelled
Cancel(t) ==
    /\ tasks[t].awaiter = "waiting"
    /\ Edit(t, [awaiter |-> "cancelled", cancelled_at |-> tasks[t].thread,
                thread |-> cancel_worker(tasks[t].thread),
                delivered |-> Raised("CancelledError", 0, "")])
    /\ UNCHANGED <<now, last_request_time, delay, proxy, timeout, wire, ret, job, out>>

InitAsync ==
    /\ now \in {0, MaxDelay + 1}
    /\ last_request_time = 0
    /\ delay \in 1..MaxDelay /\ proxy = PyNone /\ timeout = DefaultTimeout
    /\ wire = <<>>
    /\ ret = Result("none", <<>>, NotSent, NoRaw, Returned(EmptyDoc))
    /\ job \in AsyncJobs
    /\ out = NoOut
    /\ tasks = NoTasks

NextAsync ==
    \/ \E t \in Tasks : AsyncCall(t)
    \/ \E t \in Tasks : WorkerStart(t)
    \/ \E t \in Tasks : WorkerFinish(t)
    \/ \E t \in Tasks : Deliver(t)
    \/ \E t \in Tasks : Cancel(t)
    \/ Tick

SpecAsync == InitAsync /\ [][NextAsync]_vars

\* several coroutines share the facade, so several worker threads run
\* _respect_delay on the one StartpageAPI with nothing to serialise them
InitConcurrent ==
    /\ now \in {0, MaxDelay + 1}
    /\ last_request_time = 0
    /\ delay \in 0..MaxDelay /\ proxy = PyNone /\ timeout = DefaultTimeout
    /\ wire = <<>>
    /\ ret = Result("none", <<>>, NotSent, NoRaw, Returned(EmptyDoc))
    /\ job \in ConcurrentJobs
    /\ out = NoOut
    /\ tasks = NoTasks

NextConcurrent ==
    \/ \E t \in Tasks : AsyncCall(t)
    \/ \E t \in Tasks : WorkerStart(t)
    \/ \E t \in Tasks : WorkerFinish(t)
    \/ Tick

SpecConcurrent == InitConcurrent /\ [][NextConcurrent]_vars

(***************************************************************************)
(* The pure helpers, each applied once to an input drawn at the start.     *)
(***************************************************************************)
SeqsUpTo(S, n) == UNION {[1..k -> S] : k \in 0..n}

UrlChars == {"/", "x", " ", "h", ":"}
UrlJobs ==
    {[fn |-> "_normalize_url", url |-> u, base_url |-> b] :
        u \in SeqsUpTo(UrlChars, MaxUrlLen),
        b \in {_STARTPAGE_BASE_URL, _STARTPAGE_BASE_URL \o <<"/">>}}

JsonEntries == {JStr(<<"a">>), JStr(<<"1">>), JNum(1), JNull, JBool(TRUE)}
AutocompleteDoc(entries) == JsonDoc(JList(<<JStr(<<"q">>), JList(entries)>>))
\* entry i of a patterned list is the decimal text of i modulo m
Patterned(n, m) == [i \in 1..n |-> NatToStr(i % m)]
PatternedLists ==
    {Patterned(n, m) : n \in 0..MaxLongList, m \in {1, 2, MaxLongList + 1}}
JsonDocs ==
    {AutocompleteDoc(xs) : xs \in SeqsUpTo(JsonEntries, MaxListLen)}
    \cup {AutocompleteDoc([i \in 1..Len(l) |-> JStr(l[i])]) : l \in PatternedLists}
    \cup {JsonDoc(JObj), JsonDoc(JNull), JsonDoc(JNum(1)),
          JsonDoc(JList(<<JStr(<<"q">>)>>)),
          JsonDoc(JList(<<JStr(<<"q">>), JStr(<<"a">>)>>)),
          JsonDoc(JList(<<JStr(<<"q">>), JList(<<JStr(<<"a">>)>>), JObj>>))}

SuggestionElems ==
    {Elem("li", "suggestion-item", "", <<>>, <<>>, <<"a">>),
     Elem("li", "suggestion-item", "option", <<>>, <<>>, <<" ", "a", " ">>),
     Elem("div", "autocomplete-suggestion", "", <<>>, <<" ", "b">>, <<"a">>),
     Elem("option", "", "", <<"b">>, <<>>, <<"a">>),
     Elem("option", "", "", <<" ">>, <<>>, <<"a">>),
     Elem("li", "x-suggest", "", <<>>, <<>>, <<"c">>),
     Elem("span", "", "", <<>>, <<>>, <<"a">>)}
MarkupDocs ==
    {MarkupDoc(es) : es \in SeqsUpTo(SuggestionElems, MaxListLen)}
    \cup {MarkupDoc([i \in 1..Len(l) |-> Elem("option", "", "", l[i], <<>>, <<>>)]) :
            l \in PatternedLists}

SuggestionJobs ==
    {[fn |-> "parse_suggestions", doc |-> d, fault |-> f] :
        d \in JsonDocs \cup MarkupDocs \cup {EmptyDoc}, f \in BOOLEAN}

SearchTypes == {"web", "images", "videos", "news", "places", "pics", "bogus", ""}

\* elements of result pages: containers of each category that are complete,
\* that lack their title, URL, image or name, or that only a fallback
\* selects; scripts with embedded image objects and with linked data
X == <<"/", "x">>
WebElems ==
    {Container("div", "result", "", [title_tag |-> Tag("a", <<"T">>, X), desc |-> <<"d">>]),
     Container("div", "result", "", [title_tag |-> Tag("a", <<" ">>, X)]),
     Container("div", "result", "", [title_tag |-> Tag("h2", <<"T">>, NoneText)]),
     Container("div", "w-gl-result", "result-item",
         [all_links |-> <<Tag("a", <<>>, <<"/", "y">>), Tag("a", <<"U">>, <<" ">>)>>]),
     Container("div", "plain", "",
         [title_tag |-> Tag("a", <<"F">>, <<"h", ":", "x">>), paragraph |-> <<"p">>])}
VideoElems ==
    {Container("div", "video-result-item", "",
         [title_tag |-> Tag("a", <<"V">>, X), duration |-> <<"(", "1", ":", "2", "3", ")">>]),
     Container("div", "video-result-item", "", [desc |-> <<"d">>])}
NewsElems ==
    {Container("article", "news-item", "",
         [title_tag_no_a |-> Tag("h3", <<"N">>, NoneText),
          all_links |-> <<Tag("a", <<>>, <<"/", "n">>)>>]),
     Container("article", "news-item", "", [title_tag |-> Tag("span", <<"N">>, NoneText)]),
     Container("article", "story", "", [title_tag |-> Tag("a", <<"M">>, X), date |-> <<"d">>])}
ImageElems ==
    {Container("div", "tile", "", [has_img |-> TRUE, img_src |-> <<"/", "i">>]),
     Container("div", "tile", "", [has_img |-> TRUE, img_src |-> <<" ">>, img_alt |-> <<"t">>]),
     Container("figure", "image-container", "",
         [has_img |-> TRUE, img_src |-> <<"/", "j">>, caption |-> <<"c">>]),
     Script("", <<ImageObject(TRUE, TRUE, NoneText, X, <<"t">>),
                  ImageObject(TRUE, TRUE, <<"/", "i">>, NoneText, NoneText)>>, NoLinkedData)}
PlaceElems ==
    {Container("div", "place-card", "",
         [name_tag |-> Tag("h3", <<"A">>, NoneText), address |-> <<"b">>]),
     Container("div", "place-card", "",
         [name_tag |-> Tag("h3", <<" ">>, NoneText), address |-> <<"b">>]),
     Container("article", "local-result", "",
         [name_tag |-> Tag("h3", <<"C">>, NoneText), address |-> <<"b">>]),
     Script("application/ld+json", <<>>,
         LinkedData("list",
             <<PlaceItem(TRUE, "Place", NoneText, <<"b">>, X, NoneText, TRUE),
               PlaceItem(TRUE, "Place", <<"a">>, <<"B">>, X, <<"4">>, TRUE)>>)),
     Script("application/ld+json", <<>>,
         LinkedData("graph",
             <<PlaceItem(TRUE, "PostalAddress", NoneText, NoneText, NoneText, NoneText, TRUE),
               PlaceItem(TRUE, "Thing", <<"a">>, NoneText, NoneText, NoneText, TRUE),
               PlaceItem(TRUE, "Store", <<"A">>, <<"b">>, NoneText, NoneText, TRUE),
               PlaceItem(FALSE, "", NoneText, NoneText, NoneText, NoneText, TRUE)>>))}
PageElems == WebElems \cup VideoElems \cup NewsElems \cup ImageElems \cup PlaceElems
\* links, buttons and pagination regions, enabled and disabled
ControlElems ==
    {Control("a", "Next", "", "", {}, FALSE),
     Control("button", "Next", "", "", {}, TRUE),
     Control("a", "2", "", "", {}, FALSE),
     Control("a", "", "", "next page", {"pagination-next", "disabled"}, FALSE),
     Nav("nav", "navigation", "pagination",
         <<Control("a", "2", "", "", {}, FALSE), Control("a", ">", "", "", {}, FALSE)>>),
     Nav("nav", "navigation", "pagination",
         <<Control("a", "2", "", "", {}, FALSE), Control("a", ">", "", "", {"disabled"}, FALSE)>>),
     Nav("div", "navigation", "pagination",
         <<Control("a", "2", "", "", {}, FALSE), Control("button", ">", "", "", {}, TRUE)>>)}
ResultPages ==
    {MarkupDoc(es) : es \in SeqsUpTo(PageElems, MaxPageElems)}
    \cup {MarkupDoc(es) : es \in SeqsUpTo(ControlElems, MaxPageElems)}

ParseJobs ==
    {[fn |-> "parse_search_results", html |-> h, search_type |-> ty, fault |-> f] :
        h \in {EmptyDoc, GarbageDoc, OptionDoc, SuggestionDoc},
        ty \in SearchTypes, f \in BOOLEAN}
    \cup {[fn |-> "parse_search_results", html |-> h, search_type |-> ty, fault |-> FALSE] :
            h \in ResultPages, ty \in DOMAIN parser_method_map}

BuildQueries ==
    {<<>>, <<" ">>, <<"\t", " ">>, <<"a">>, <<"a", " ", "b">>,
     <<" ", " ", "c", "a", "t", "s", " ", " ">>}
PageSizes == {1, 10, 20}
BuildExtras == {NoDict, ("sc" :> "x"), ("startat" :> <<"9", "9">>)}
BuildJobs ==
    {[fn |-> "_build_search_params",
      a |-> [query |-> qy, category |-> c, page |-> pg, results_per_page |-> n,
             kwargs |-> kw] @@ PerformDefaults] :
        qy \in BuildQueries, c \in {"web", "pics", "video", "news", "map"},
        pg \in 0..MaxPage, n \in PageSizes, kw \in BuildExtras}

\* the builder called with every category of the table and with a
\* safe-search level, a size and a position whether or not the category
\* takes them
SafeSearchInputs == {PyNone, "", "strict", "bogus"}
FilterJobs ==
    {[fn |-> "_build_search_params",
      a |-> [query |-> <<"a">>, category |-> c, safe_search |-> ss, size |-> sz,
             latitude |-> {48}, longitude |-> {2}, radius |-> {500}] @@ PerformDefaults] :
        c \in {SEARCH_CATEGORIES[k] : k \in DOMAIN SEARCH_CATEGORIES},
        ss \in SafeSearchInputs, sz \in {PyNone, "large"}}

\* the builder given keys that are in its tables and keys that are not; the
\* category names are those its conditions test (lines 241-252)
LookupJobs ==
    {[fn |-> "lookups",
      a |-> [query |-> <<"a">>, category |-> c, language |-> lg, region |-> rg,
             safe_search |-> ss, time_filter |-> tf, size |-> sz, duration |-> du]
            @@ PerformDefaults] :
        c \in {"web", "video", "images"}, lg \in {"german", "xx"}, rg \in {"uk", "zz"},
        ss \in {"strict", "bogus"}, tf \in {"day", "hour"}, sz \in {"large", "huge"},
        du \in {"short", "epic"}}

\* search(query, **extras): how Python binds the caller's extra keywords on
\* the way to the builder.  query is given positionally (line 333) and
\* category and category_for_parser are passed by search itself (lines
\* 358-360), so an extra of one of these names is a TypeError; an extra
\* naming another parameter of _perform_search_request (lines 275-280) is
\* bound to it; the rest reach the builder's **kwargs (line 323)
GivenTwice == {"query", "category", "category_for_parser"}
BoundByName == {"size", "duration", "latitude", "longitude", "radius"}
search_binding(query, extras) ==
    LET plain == search_call(query, "en", "all", "moderate", "any", 1, 10, NoDict) IN
    IF (DOMAIN extras) \cap GivenTwice # {}
    THEN [exc |-> "TypeError", a |-> plain]
    ELSE [exc |-> "none",
          a |-> [k \in (DOMAIN extras) \cap BoundByName |-> extras[k]]
                @@ [kwargs |-> Without(extras, BoundByName)] @@ plain]

SearchExtras ==
    {("sc" :> "x"), ("cat" :> "x"), ("ff" :> "9"), ("num" :> <<"7">>),
     ("startat" :> <<"9">>) @@ ("sc" :> "x"), ("size" :> "large"),
     ("category" :> "x"), ("query" :> <<"b">>)}
ExtrasJobs ==
    {[fn |-> "search", query |-> <<"a">>, extras |-> e] : e \in SearchExtras}

\* the calls the five category facades make of _perform_search_request
\* (lines 357-369, 400-411, 443-454, 484-495 and 526-539), over the filters a
\* caller can pass
FacadeLevels == {PyNone, "moderate", "strict"}
FacadeCalls ==
    {[op |-> "search", a |-> search_call(<<"a">>, "en", "all", ss, tf, 1, 10, NoDict)] :
        ss \in FacadeLevels, tf \in {"any", "day"}}
    \cup {[op |-> "images_search",
           a |-> images_search_call(<<"a">>, "en", "all", ss, sz, 1, 20, NoDict)] :
             ss \in FacadeLevels, sz \in {PyNone, "any", "large", "huge"}}
    \cup {[op |-> "videos_search",
           a |-> videos_search_call(<<"a">>, "en", "all", ss, d, "any", 1, 10, NoDict)] :
             ss \in FacadeLevels, d \in {"any", "short"}}
    \cup {[op |-> "news_search",
           a |-> news_search_call(<<"a">>, "en", "all", tf, 1, 10, NoDict)] :
             tf \in {"any", "day"}}
    \cup {[op |-> "places_search",
           a |-> places_search_call(<<"a">>, "en", "all", lat, lon, r, 1, 10, NoDict)] :
             lat \in {{}, {48}}, lon \in {{}, {2}}, r \in {{}, {500}}}
RequestJobs == {[fn |-> "_perform_search_request"] @@ c : c \in FacadeCalls}

\* what the detectors of instant_answers (lines 787-805) can hand to the
\* de-duplication: no answer or a non-empty text, no panel or a panel of
\* either detector, with or without title and description
GenericPanel(title, description) ==
    [title |-> title, description |-> description, source |-> "Knowledge Panel"]
AnswerTexts == {<<"a">>, <<"c">>, <<"a", "b">>, <<"a", "b", "c">>}
PanelTexts == {<<"a", "b">>, <<"b">>}
DetectedPanels ==
    {Panel(t, d) : t \in {<<>>, <<"t">>}, d \in PanelTexts}
    \cup {GenericPanel(t, d) : t \in {<<>>, <<"t">>}, d \in PanelTexts \cup {<<>>}}
AssemblyJobs ==
    {[fn |-> "instant_answers", found |-> [instant_answer |-> ia, knowledge_panel |-> kp]] :
        ia \in AnswerTexts \cup {NoneText}, kp \in DetectedPanels \cup {NoPanel}}

normalize_url_step ==
    /\ job.fn = "_normalize_url" /\ out = NoOut
    /\ out' = [fn |-> job.fn, value |-> _normalize_url(job.url, job.base_url)]
    /\ UNCHANGED <<now, last_request_time, delay, proxy, timeout, wire, ret, job, tasks>>

parse_suggestions_step ==
    /\ job.fn = "parse_suggestions" /\ out = NoOut
    /\ out' = [fn |-> job.fn,
               path |-> parse_suggestions_path(job.doc, job.fault),
               value |-> parse_suggestions(job.doc, job.fault)]
    /\ UNCHANGED <<now, last_request_time, delay, proxy, timeout, wire, ret, job, tasks>>

parse_search_results_step ==
    /\ job.fn = "parse_search_results" /\ out = NoOut
    /\ out' = [fn |-> job.fn] @@ parse_search_results(job.html, job.search_type, job.fault)
    /\ UNCHANGED <<now, last_request_time, delay, proxy, timeout, wire, ret, job, tasks>>

build_search_params_step ==
    /\ job.fn = "_build_search_params" /\ out = NoOut
    /\ out' = [fn |-> job.fn] @@ _build_search_params(job.a)
    /\ UNCHANGED <<now, last_request_time, delay, proxy, timeout, wire, ret, job, tasks>>

\* lines 357-369 and 311-324: the parameters search builds from the caller's
\* extras
search_extras_step ==
    /\ job.fn = "search" /\ out = NoOut
    /\ LET bound == search_binding(job.query, job.extras) IN
       out' = IF bound.exc # "none"
              THEN [fn |-> job.fn, exc |-> bound.exc, params |-> NoDict]
              ELSE [fn |-> job.fn] @@ _build_search_params(bound.a)
    /\ UNCHANGED <<now, last_request_time, delay, proxy, timeout, wire, ret, job, tasks>>

\* lines 225-252: the builder's table lookups
lookups_step ==
    /\ job.fn = "lookups" /\ out = NoOut
    /\ out' = [fn |-> job.fn] @@ _build_search_params(job.a)
    /\ UNCHANGED <<now, last_request_time, delay, proxy, timeout, wire, ret, job, tasks>>

\* lines 305-324 of _perform_search_request: the parameters of the request a
\* facade call sends
perform_search_request_step ==
    /\ job.fn = "_perform_search_request" /\ out = NoOut
    /\ out' = [fn |-> job.fn, op |-> job.op] @@ _build_search_params(job.a)
    /\ UNCHANGED <<now, last_request_time, delay, proxy, timeout, wire, ret, job, tasks>>

\* lines 807-817 of instant_answers, applied to what the detectors found
instant_answers_assembly_step ==
    /\ job.fn = "instant_answers" /\ out = NoOut
    /\ out' = [fn |-> job.fn, value |-> assemble_instant_answers(job.found)]
    /\ UNCHANGED <<now, last_request_time, delay, proxy, timeout, wire, ret, job, tasks>>

InitPure ==
    /\ now = 0
    /\ last_request_time = 0
    /\ delay = 1 /\ proxy = PyNone /\ timeout = DefaultTimeout
    /\ wire = <<>>
    /\ ret = Result("none", <<>>, NotSent, NoRaw, Returned(EmptyDoc))
    /\ job \in UrlJobs \cup SuggestionJobs \cup ParseJobs \cup BuildJobs \cup AssemblyJobs
               \cup FilterJobs \cup RequestJobs \cup LookupJobs
               \cup ExtrasJobs
    /\ out = NoOut
    /\ tasks = NoTasks

NextPure ==
    \/ normalize_url_step
    \/ parse_suggestions_step
    \/ parse_search_results_step
    \/ build_search_params_step
    \/ lookups_step
    \/ search_extras_step
    \/ perform_search_request_step
    \/ instant_answers_assembly_step

SpecPure == InitPure /\ [][NextPure]_vars

(***************************************************************************)
(* Properties.                                                             *)
(***************************************************************************)
IsBlankText(s) == \A i \in 1..Len(s) : s[i] \in Whitespace
NoOuterSpace(s) == s # <<>> /\ s[1] \notin Whitespace /\ s[Len(s)] \notin Whitespace
SearchOps ==
    {"search", "images_search", "videos_search", "news_search", "places_search",
     "advanced_search"}
TypedErrors == {"StartpageRateLimitError", "StartpageHTTPError", "StartpageError"}

\* C1: with one client used sequentially, the throttle timestamps of any two
\* consecutive requests handed to the transport are at least `delay` apart.
C1_ThrottleSpacing ==
    \A i \in 1..(Len(wire) - 1) : wire[i + 1] - wire[i] >= delay

C1_Witness == Len(wire) >= 2 /\ delay > 0 /\ wire[2] - wire[1] = delay

C3_TransportErrors ==
    LET raw == ret.raw
        bad_gzip == raw.k = "response" /\ raw.encoding = "gzip" /\ ~raw.gzipped
    IN  /\ (raw.k = "HTTPError" /\ raw.code = 429)
            => ret.exc = "StartpageRateLimitError"
        /\ (raw.k = "HTTPError" /\ raw.code # 429)
            => (ret.exc = "StartpageHTTPError" /\ ret.code = raw.code)
        /\ raw.k = "URLError"
            => (ret.exc = "StartpageError" /\ ret.msg = "Network error")
        /\ (raw.k = "Exception" \/ bad_gzip)
            => (ret.exc = "StartpageError"
                /\ ret.msg = "Request failed due to an unexpected error")
        /\ (raw.k \in {"HTTPError", "URLError", "Exception"} \/ bad_gzip)
            => ret.exc \in TypedErrors

C3_Witness ==
    ret.raw.k = "HTTPError" /\ ret.raw.code = 429 /\ ret.exc = "StartpageRateLimitError"

\* C4: no automatic retry: a facade call hands at most one request to urllib,
\* and when that request fails the call ends with the error.
C4_NoRetry ==
    [][/\ Len(wire') <= Len(wire) + 1
       /\ (wire' # wire /\ ret'.raw.k # "response") => ret'.exc \in TypedErrors]_vars

C4_Witness ==
    Len(wire) = 1 /\ ret.raw.k = "URLError" /\ ret.exc = "StartpageError"

\* C5: parse_search_results raises StartpageParseError whenever the html is
\* empty and whenever the category is not one of the five known ones.
KnownCategories == {"web", "images", "videos", "news", "places"}

C5_ParseErrors ==
    (out.fn = "parse_search_results"
        /\ (job.html.kind = "empty" \/ job.search_type \notin KnownCategories))
    => out.exc = "StartpageParseError"

C5_Witness ==
    /\ out.fn = "parse_search_results" /\ job.html.kind # "empty"
    /\ job.search_type = "bogus" /\ out.exc = "StartpageParseError"

\* C6: for a non-blank query the built parameters carry the query without its
\* leading and trailing whitespace and, unless the caller's extras name
\* startat themselves, startat as the decimal text of (page-1) * pageSize.
IsTrimOf(t, s) ==
    /\ t # <<>> => (t[1] \notin Whitespace /\ t[Len(t)] \notin Whitespace)
    /\ \E i \in 0..(Len(s) - Len(t)) :
          /\ SubSeq(s, i + 1, i + Len(t)) = t
          /\ \A k \in (1..i) \cup ((i + Len(t) + 1)..Len(s)) : s[k] \in Whitespace

DigitValue(c) == (CHOOSE d \in 1..10 : Digits[d] = c) - 1

RECURSIVE NatValue(_)
NatValue(s) ==
    IF Len(s) = 1 THEN DigitValue(s[1])
    ELSE 10 * NatValue(SubSeq(s, 1, Len(s) - 1)) + DigitValue(s[Len(s)])

DecimalValue(s) == IF Head(s) = "-" THEN 0 - NatValue(Tail(s)) ELSE NatValue(s)

Cats == <<"c", "a", "t", "s">>

C6_QueryAndOffset ==
    (out.fn = "_build_search_params" /\ ~IsBlankText(job.a.query))
    => /\ out.exc = "none"
       /\ IsTrimOf(out.params["query"], job.a.query)
       /\ "startat" \notin DOMAIN job.a.kwargs
            => DecimalValue(out.params["startat"])
                 = (job.a.page - 1) * job.a.results_per_page
       /\ (/\ job.a.query = <<" ", " ">> \o Cats \o <<" ", " ">>
           /\ job.a.page = 2 /\ job.a.results_per_page = 10
           /\ "startat" \notin DOMAIN job.a.kwargs)
            => (out.params["query"] = Cats /\ out.params["startat"] = <<"1", "0">>)

C6_Witness ==
    /\ out.fn = "_build_search_params"
    /\ job.a.query = <<" ", " ">> \o Cats \o <<" ", " ">>
    /\ job.a.page = 2 /\ job.a.results_per_page = 10
    /\ out.params["startat"] = <<"1", "0">>

\* C7: "//x" becomes "https://x", "/p" becomes the base origin followed by
\* "/p" with no doubled slash, an absolute URL is returned unchanged, and
\* normalising a normalised URL changes nothing.
Origin(base_url) ==
    IF endswith(base_url, <<"/">>) THEN SubSeq(base_url, 1, Len(base_url) - 1)
    ELSE base_url

C7_NormalizeUrl ==
    out.fn = "_normalize_url"
    => /\ (NoOuterSpace(job.url) /\ startswith(job.url, <<"/", "/">>))
            => out.value = <<"h", "t", "t", "p", "s", ":">> \o job.url
       /\ (NoOuterSpace(job.url) /\ startswith(job.url, <<"/">>)
              /\ ~startswith(job.url, <<"/", "/">>))
            => out.value = Origin(job.base_url) \o job.url
       /\ (NoOuterSpace(job.url) /\ startswith(job.url, <<"h", ":">>))
            => out.value = job.url
       /\ _normalize_url(out.value, job.base_url) = out.value

C7_Witness ==
    /\ out.fn = "_normalize_url" /\ job.url = <<"/", "x">>
    /\ endswith(job.base_url, <<"/">>)
    /\ out.value = _STARTPAGE_BASE_URL \o <<"/", "x">>

\* C8: the list returned by parse_suggestions contains no string twice,
\* whether it comes from the JSON path or from the markup fallback.
NoDuplicates(s) == \A i, j \in 1..Len(s) : i # j => s[i] # s[j]

C8_NoDuplicateSuggestions ==
    out.fn = "parse_suggestions" => NoDuplicates(out.value)

\* C9: a JSON array whose second element is a list is answered from that list,
\* in order (its strings and numbers as text, at most the first 10), and the
\* markup scan is used only for a response of another shape; the result
\* never has more than 10 entries and the call never raises.
RECURSIVE TextsOf(_)
TextsOf(entries) ==
    IF entries = <<>> THEN <<>>
    ELSE LET e == Head(entries) IN
         (CASE e.t = "str" -> <<e.v>>
            [] e.t = "num" -> <<str_int(e.n)>>
            [] e.t = "bool" -> <<IF e.b THEN <<"T", "r", "u", "e">>
                                 ELSE <<"F", "a", "l", "s", "e">>>>
            [] OTHER -> <<>>) \o TextsOf(Tail(entries))

IsAutocompleteShape(doc) ==
    /\ doc.kind = "json" /\ doc.data.t = "list"
    /\ Len(doc.data.items) >= 2 /\ doc.data.items[2].t = "list"

C9_JsonFirst ==
    out.fn = "parse_suggestions"
    => /\ Len(out.value) <= 10
       /\ IF IsAutocompleteShape(job.doc)
          THEN LET texts == TextsOf(job.doc.data.items[2].items) IN
               /\ out.path = "json"
               /\ Len(out.value) = Min(10, Len(texts))
               /\ \A i \in 1..Len(out.value) : out.value[i] = texts[i]
          ELSE out.path \in {"markup", "except"}
       /\ out.path = "except" => out.value = <<>>

C9_Witness ==
    /\ out.fn = "parse_suggestions" /\ out.path = "json"
    /\ Len(job.doc.data.items[2].items) > 10 /\ Len(out.value) = 10
    /\ out.value[2] # out.value[1]

\* C10: suggestions with an empty or whitespace-only query part returns the
\* empty list, sends no request and does not run the throttle step.
C10_BlankSuggestions ==
    [][(ret'.op = "suggestions" /\ IsBlankText(ret'.query))
        => /\ ret'.exc = "none"
           /\ ret'.value = <<>>
           /\ ret'.sent = NotSent
           /\ wire' = wire
           /\ last_request_time' = last_request_time
           /\ now' >= now]_vars

C10_Witness ==
    /\ ret.op = "suggestions" /\ ret.query = <<" ">> /\ ret.exc = "none"
    /\ ret.value = <<>> /\ ret.sent = NotSent
    /\ Len(wire) = 1 /\ last_request_time = wire[1]

\* C11: instant_answers called with an empty or whitespace-only query ends
\* with ValueError and sends no request.
C11_BlankInstantAnswers ==
    (ret.op = "instant_answers" /\ IsBlankText(ret.query))
    => (ret.exc = "ValueError" /\ ret.sent = NotSent)

\* C12: when an instant answer and a panel with a non-empty description were
\* both detected and one text contains the other, a panel with a title keeps
\* the panel and returns no instant answer, a panel without title keeps the
\* instant answer and returns no panel; so no returned bundle holds an instant
\* answer and a non-empty panel description one of which contains the other.
Contained(x, y) == IsSubstr(x, y) \/ IsSubstr(y, x)

C12_InstantAnswerDedup ==
    out.fn = "instant_answers"
    => LET ia == job.found.instant_answer
           kp == job.found.knowledge_panel
           r == out.value
       IN  /\ (/\ ia # NoneText /\ kp # NoPanel /\ kp.description # <<>>
               /\ Contained(ia, kp.description))
                => IF kp.title # <<>>
                   THEN r.instant_answer = NoneText /\ r.knowledge_panel = kp
                   ELSE r.instant_answer = ia /\ r.knowledge_panel = NoPanel
           /\ ~(/\ r.instant_answer # NoneText /\ r.knowledge_panel # NoPanel
                /\ r.knowledge_panel.description # <<>>
                /\ Contained(r.instant_answer, r.knowledge_panel.description))

C12_Witness ==
    /\ out.fn = "instant_answers"
    /\ job.found.instant_answer = <<"a", "b", "c">>
    /\ job.found.knowledge_panel = Panel(<<"t">>, <<"a", "b">>)
    /\ out.value.instant_answer = NoneText
    /\ out.value.knowledge_panel = job.found.knowledge_panel

\* C13: every record of a page returned by parse_search_results has its
\* required fields (title and url for web, videos and news, image_url for
\* images, name for places) non-empty; a page whose containers lack them is
\* still returned, not failed; and the web, video and news records are exactly
\* those of the candidate containers that have a title and a URL, in order.
RequiredFields(search_type) ==
    CASE search_type \in {"web", "videos", "news"} -> {"title", "url"}
      [] search_type = "images" -> {"image_url"}
      [] search_type = "places" -> {"name"}

Candidates(search_type, elems) ==
    CASE search_type = "web" -> web_containers(elems)
      [] search_type = "videos" -> video_containers(elems)
      [] search_type = "news" -> news_containers(elems)

\* the text and the href the parser of the category takes title and URL from
TitleSource(search_type, c) ==
    CASE search_type = "web" -> web_title_tag(c)
      [] search_type = "videos" -> c.title_tag
      [] search_type = "news" ->
            IF c.title_tag # NoTag THEN c.title_tag
            ELSE IF c.title_tag_no_a # NoTag /\ link_for_title(c) # NoTag
            THEN Tag("a", c.title_tag_no_a.text, link_for_title(c).href)
            ELSE NoTag

IsComplete(search_type, c) ==
    LET t == TitleSource(search_type, c)
    IN  t # NoTag /\ text_of(t) # <<>> /\ url_of(t) # <<>>

C13_IncompleteRecordsDropped ==
    (out.fn = "parse_search_results" /\ job.search_type \in KnownCategories
        /\ job.html.kind # "empty" /\ ~job.fault)
    => /\ out.exc = "none"
       /\ \A i \in 1..Len(out.value.results) :
             \A f \in RequiredFields(job.search_type) :
                out.value.results[i][f] \notin {<<>>, NoneText}
       /\ job.search_type \in {"web", "videos", "news"}
            => LET complete == SelectSeq(Candidates(job.search_type, elements(job.html)),
                                   LAMBDA c : IsComplete(job.search_type, c))
               IN  /\ Len(out.value.results) = Len(complete)
                   /\ \A i \in 1..Len(complete) :
                         LET t == TitleSource(job.search_type, complete[i])
                         IN  /\ out.value.results[i].title = text_of(t)
                             /\ out.value.results[i].url = url_of(t)

C13_Witness ==
    /\ out.fn = "parse_search_results" /\ job.search_type = "web"
    /\ Len(job.html.elems) = 2
    /\ job.html.elems[1].class = "result" /\ job.html.elems[1].title_tag.text = <<" ">>
    /\ job.html.elems[2].class = "result" /\ job.html.elems[2].title_tag.text = <<"T">>
    /\ job.html.elems[2].title_tag.href = X
    /\ Len(out.value.results) = 1
    /\ out.value.results[1].title = <<"T">>
    /\ out.value.results[1].url = _STARTPAGE_BASE_URL \o X

\* C14: every operation of the synchronous facade can be called on the async
\* facade, which hands it to the synchronous operation of the same name: a
\* call of any of the nine never ends in AttributeError and always reaches a
\* worker thread
C14_AsyncOffersEveryOperation ==
    \A t \in Tasks :
        (job.fn = "async" /\ job.op \in SyncOperations /\ tasks[t].awaiter # "none")
            => (tasks[t].delivered.exc # "AttributeError" /\ tasks[t].thread # "none")

\* what the synchronous operation gives a caller who passes the same
\* arguments and meets the same outcome of urllib
SyncOutcome(op, a, raw, found) ==
    LET early == before_request(op, a) IN
    IF early.done THEN early.outcome ELSE after_response(op, a, raw, found)
SyncParams(op, a) == IF before_request(op, a).done THEN NoDict ELSE request_params(op, a)

\* C15: what an async operation gives its awaiting caller is exactly what
\* the synchronous operation gives for the caller's arguments, value or
\* error of the same kind, neither wrapped nor replaced, and the request it
\* sent carries the parameters the synchronous call would have sent
C15_AsyncSameOutcome ==
    \A t \in Tasks :
        (job.fn = "async" /\ tasks[t].awaiter = "got" /\ job.op \in AsyncOperations)
            => /\ tasks[t].delivered
                    = SyncOutcome(job.op, job.args, tasks[t].raw, tasks[t].found)
               /\ tasks[t].params = SyncParams(job.op, job.args)
C15_Witness ==
    /\ job.fn = "async"
    /\ job.op = "images_search"
    /\ job.args.results_per_page = {5}
    /\ \E t \in Tasks :
          /\ tasks[t].awaiter = "got"
          /\ tasks[t].delivered.exc = "StartpageRateLimitError"
          /\ tasks[t].params # NoDict

Stamped(t) == tasks[t].slot > 0
TooClose(a, b) ==
    /\ Stamped(a) /\ Stamped(b)
    /\ tasks[a].slot < tasks[b].slot
    /\ wire[tasks[b].slot] - wire[tasks[a].slot] < delay

\* C16: the throttle is not atomic.  Two requests of concurrent tasks are
\* opened less than the delay apart only through the interleaving in which
\* the later one read last_request_time before the earlier one wrote it, and
\* that interleaving is reachable
C16_ThrottleRace ==
    \A a, b \in Tasks : TooClose(a, b) => tasks[b].seen < tasks[a].slot
C16_Witness ==
    /\ delay > 0
    /\ \E a, b \in Tasks : TooClose(a, b) /\ tasks[b].seen < tasks[a].slot

\* C17: cancelling the awaiting task does not interrupt a call a worker
\* thread has started: the cancelling step leaves the thread and the session
\* as they are, the thread is never dropped nor handed a cancellation, and
\* once its sleep is over it can still send and stamp last_request_time
C17_CancelLeavesWorker ==
    \A t \in Tasks :
        (tasks[t].awaiter = "cancelled" /\ tasks[t].cancelled_at \in {"sleeping", "done"})
            => /\ tasks[t].thread \in {"sleeping", "done"}
               /\ tasks[t].result.exc # "CancelledError"
               /\ tasks[t].thread = "done" => tasks[t].cancelled_at = "done" \/ Stamped(t)
               /\ (tasks[t].thread = "sleeping" /\ now >= tasks[t].wake_at)
                     => ENABLED WorkerFinish(t)
C17_Witness ==
    \E t \in Tasks :
        /\ tasks[t].awaiter = "cancelled"
        /\ tasks[t].cancelled_at = "sleeping"
        /\ tasks[t].thread = "done"
        /\ Stamped(t)
        /\ last_request_time = wire[tasks[t].slot]
        /\ tasks[t].delivered.exc = "CancelledError"

\* a request has been built by the builder, called directly or by a facade
Built == job.fn \in {"_build_search_params", "_perform_search_request"} /\ out # NoOut /\ out.exc = "none"
Carries(key) == key \in DOMAIN out.params
ImageCategory == SEARCH_CATEGORIES["images"]
PlacesCategory == SEARCH_CATEGORIES["places"]
SizeAsked == Truthy(job.a.size) /\ job.a.size # "any"

\* C18: the size filter is applied for the images category and only for it:
\* a request built for an image search with a size other than "any" carries
\* size with the table value of that size; a request of another category, or
\* an image request with size "any" or no size, carries no size
C18_SizeOnlyForImages ==
    Built =>
        IF job.a.category = ImageCategory /\ SizeAsked
        THEN Carries("size") /\ out.params["size"] = Get(IMAGE_SIZES, job.a.size, job.a.size)
        ELSE ~Carries("size")

\* C19: the geo parameters are applied for the places category and only for
\* it: a places request with latitude and longitude given carries both, one
\* with a radius given carries radius, and a request of another category
\* carries none of the three
C19_GeoOnlyForPlaces ==
    Built =>
        IF job.a.category = PlacesCategory
        THEN /\ (job.a.latitude # {} /\ job.a.longitude # {})
                    => (Carries("latitude") /\ Carries("longitude"))
             /\ job.a.radius # {} => Carries("radius")
        ELSE ~Carries("latitude") /\ ~Carries("longitude") /\ ~Carries("radius")

\* C20: ff is applied only where it is meaningful: no request built for the
\* news or the places category carries ff, whatever safe-search level the
\* builder is given, and a request for web, images or videos with a level
\* carries ff
C20_SafeSearchByCategory ==
    Built =>
        /\ job.a.category \in {SEARCH_CATEGORIES["news"], PlacesCategory} => ~Carries("ff")
        /\ (/\ job.a.category \in {SEARCH_CATEGORIES["web"], ImageCategory,
                                   SEARCH_CATEGORIES["videos"]}
            /\ Truthy(job.a.safe_search))
              => Carries("ff")

\* the wire value of a key that passes through its table
PassThrough(table, key) == IF key \in DOMAIN table THEN table[key] ELSE key
LookedUp == job.fn = "lookups" /\ out # NoOut /\ out.exc = "none"
PassThroughTables ==
    /\ out.params["language"] = PassThrough(LANGUAGE_CODES, job.a.language)
    /\ out.params["lui"] = PassThrough(LANGUAGE_CODES, job.a.language)
    /\ out.params["pl"] = PassThrough(REGION_CODES, job.a.region)
    /\ job.a.category \in {"web", "video"}
          => out.params["with_date"] = PassThrough(TIME_FILTERS, job.a.time_filter)
    /\ job.a.category = "images"
          => out.params["size"] = PassThrough(IMAGE_SIZES, job.a.size)
    /\ job.a.category = "video"
          => out.params["duration"] = PassThrough(VIDEO_DURATIONS, job.a.duration)

\* C21 as stated: every table lookup of the builder, the safe-search level
\* included, yields the table value of a known key and the key itself
\* otherwise
C21_EveryLookupPassesThrough ==
    LookedUp => /\ PassThroughTables
                /\ out.params["ff"] = PassThrough(SAFE_SEARCH_LEVELS, job.a.safe_search)

\* C21 amended: language, region, time filter, image size and video duration
\* pass through; a safe-search level that is not in its table yields "0",
\* the value of moderate, and a known level its table value
C21_LookupsPassThroughButSafeSearch ==
    LookedUp => /\ PassThroughTables
                /\ out.params["ff"] = IF job.a.safe_search \in DOMAIN SAFE_SEARCH_LEVELS
                                      THEN SAFE_SEARCH_LEVELS[job.a.safe_search]
                                      ELSE SAFE_SEARCH_LEVELS["moderate"]
C21_Witness ==
    /\ LookedUp
    /\ job.a.language = "xx" /\ out.params["language"] = "xx"
    /\ job.a.region = "uk" /\ out.params["pl"] = "uk"
    /\ job.a.category = "images" /\ job.a.size = "large" /\ out.params["size"] = "l"
    /\ job.a.safe_search = "bogus" /\ out.params["ff"] = "0"

\* what the builder computes for the job's named arguments when there are no
\* extras
Computed ==
    IF job.fn = "search"
    THEN _build_search_params(search_call(job.query, "en", "all", "moderate", "any", 1, 10, NoDict)).params
    ELSE _build_search_params([job.a EXCEPT !.kwargs = NoDict]).params
ExtrasOf == IF job.fn = "search" THEN job.extras ELSE job.a.kwargs
Merged == job.fn \in {"search", "_build_search_params"} /\ out # NoOut /\ out.exc # "ValueError"
KeepsComputed ==
    \A k \in (DOMAIN out.params) \ (DOMAIN ExtrasOf) :
        k \in DOMAIN Computed /\ out.params[k] = Computed[k]

\* C22 as stated: every key of the caller's extras ends in the parameter set
\* with the extras' value, whatever the builder computed for it (query, cat,
\* startat, ff, num), and every other computed key keeps its value
C22_EveryExtraOverrides ==
    Merged =>
        /\ out.exc = "none"
        /\ \A k \in DOMAIN ExtrasOf : k \in DOMAIN out.params /\ out.params[k] = ExtrasOf[k]
        /\ KeepsComputed

\* C22 amended: the extras that reach the builder's **kwargs are merged last
\* and override what was computed (cat, startat, ff, num); an extra named
\* query, category or category_for_parser makes the call a TypeError, and one
\* naming another parameter of the request helper is bound to that parameter
\* and is not merged
C22_ExtrasMergedLast ==
    Merged =>
        IF job.fn = "search" /\ (DOMAIN ExtrasOf) \cap GivenTwice # {}
        THEN out.exc = "TypeError"
        ELSE /\ out.exc = "none"
             /\ \A k \in (DOMAIN ExtrasOf) \ BoundByName :
                   k \in DOMAIN out.params /\ out.params[k] = ExtrasOf[k]
             /\ job.fn = "search" =>
                   \A k \in (DOMAIN ExtrasOf) \cap BoundByName : k \notin DOMAIN out.params
             /\ KeepsComputed
C22_Witness ==
    /\ Merged /\ job.fn = "search" /\ out.exc = "none"
    /\ job.extras = ("cat" :> "x")
    /\ Computed["cat"] = "web" /\ out.params["cat"] = "x"
    /\ out.params["query"] = <<"a">>

\* the table options among the caller's, each under its wire name
Remapped(kwargs) ==
    {<<ADVANCED_SEARCH_PARAMS[kwargs[i][1]], kwargs[i][2]>> :
        i \in {j \in 1..Len(kwargs) : kwargs[j][1] \in DOMAIN ADVANCED_SEARCH_PARAMS}}
\* what search(query) with its defaults builds
SearchParams(query) ==
    _build_search_params(search_call(query, "en", "all", "moderate", "any", 1, 10, NoDict)).params

\* C23: advanced_search sends each option whose key is in the advanced table
\* under the table's wire name with the caller's value, and is otherwise the
\* path of search: a blank query is a ValueError with nothing sent, else one
\* request carrying what search builds for the trimmed query (offset and
\* defaults included), answered by the transport error or by the web
\* extraction of the page
C23_AdvancedSearchPath ==
    [][ret'.op = "advanced_search" =>
        IF IsBlankText(ret'.query)
        THEN ret'.exc = "ValueError" /\ ret'.sent = NotSent /\ wire' = wire
        ELSE /\ Len(wire') <= Len(wire) + 1
             /\ Len(wire') >= 1 /\ ret'.sent # NotSent
             /\ ret'.sent.method = "POST" /\ ret'.sent.url = Url(SEARCH_URL, NoDict)
             /\ \E kwargs \in AdvancedKwargs :
                   /\ \A pair \in Remapped(kwargs) :
                         /\ pair[1] \in DOMAIN ret'.sent.data
                         /\ ret'.sent.data[pair[1]] = pair[2]
                   /\ \A k \in (DOMAIN ret'.sent.data) \ {pair[1] : pair \in Remapped(kwargs)} :
                         /\ k \in DOMAIN SearchParams(ret'.query)
                         /\ ret'.sent.data[k] = SearchParams(ret'.query)[k]
                   /\ DOMAIN SearchParams(ret'.query) \subseteq DOMAIN ret'.sent.data
             /\ LET response == _make_request(ret'.raw) IN
                IF response.exc # "none"
                THEN ret'.exc = response.exc
                ELSE /\ ret'.exc = parse_search_results(response.value, "web", FALSE).exc
                     /\ ret'.value = parse_search_results(response.value, "web", FALSE).value]_vars
C23_Witness ==
    /\ ret.op = "advanced_search" /\ ret.exc = "none"
    /\ ret.sent.data["with_date"] = "d"
    /\ ret.sent.data["query"] = <<"a">>
    /\ ret.sent.data["startat"] = <<"0">>
    /\ Len(wire) = 1

\* C29: an option of advanced_search whose key is not in the advanced table
\* is not remapped but is still passed on and takes effect in the request
\* that is sent: a language given to advanced_search is the request's
\* language
C29_UnmappedOptionsPassedOn ==
    (ret.op = "advanced_search" /\ ret.sent # NotSent) =>
        \E kwargs \in AdvancedKwargs :
            \A i \in 1..Len(kwargs) :
                kwargs[i][1] = "language" =>
                    ret.sent.data["language"]
                        = Get(LANGUAGE_CODES, kwargs[i][2], kwargs[i][2])

\* the i-th container-selection strategy of a category, in its listed order
Strategy(search_type, i, e) ==
    CASE search_type = "web" -> i <= 6 /\ web_selector(i, e)
      [] search_type = "images" -> i <= 4 /\ image_selector(i, e)
      [] search_type = "videos" -> i <= 4 /\ video_selector(i, e)
      [] search_type = "news" -> i <= 4 /\ news_selector(i, e)
      [] search_type = "places" -> i <= 5 /\ place_selector(i, e)
Matches(search_type, i, elems) ==
    SelectSeq(elems, LAMBDA e : IsContainer(e) /\ Strategy(search_type, i, e))
\* the first strategy that yields a container, 0 when none does
FirstStrategy(search_type, elems) ==
    IF \E i \in 1..6 : Matches(search_type, i, elems) # <<>>
    THEN CHOOSE i \in 1..6 :
            /\ Matches(search_type, i, elems) # <<>>
            /\ \A j \in 1..(i - 1) : Matches(search_type, j, elems) = <<>>
    ELSE 0
\* the records the category's loop makes of the given containers
RecordsOf(search_type, containers) ==
    CASE search_type = "web" -> records_of([i \in 1..Len(containers) |-> web_record(containers[i])])
      [] search_type = "videos" -> records_of([i \in 1..Len(containers) |-> video_record(containers[i])])
      [] search_type = "news" -> records_of([i \in 1..Len(containers) |-> news_record(containers[i])])
      [] search_type = "images" -> image_items(containers, <<>>)
      [] search_type = "places" -> place_cards(containers, <<>>)
\* the page is scraped from its containers (always for web, videos and news;
\* for images and places when the structured pass gave nothing)
Scraped ==
    /\ out.fn = "parse_search_results" /\ out.exc = "none"
    /\ job.search_type \in KnownCategories /\ job.html.kind = "markup"
    /\ job.search_type = "images"
          => image_scripts(SelectSeq(job.html.elems, IsScript), <<>>) = <<>>
    /\ job.search_type = "places"
          => place_scripts(SelectSeq(job.html.elems, IsScript), <<>>) = <<>>

\* C24: in each of the five categories selection stops at the first strategy
\* that yields a container: the records of a scraped page are those of the
\* containers of the first matching strategy, and a container matched only
\* by a later strategy contributes none
C24_RankAndStop ==
    (Scraped /\ FirstStrategy(job.search_type, job.html.elems) # 0) =>
        out.value.results
            = RecordsOf(job.search_type,
                  Matches(job.search_type,
                          FirstStrategy(job.search_type, job.html.elems), job.html.elems))

ImagePage ==
    /\ out.fn = "parse_search_results" /\ out.exc = "none"
    /\ job.search_type = "images" /\ job.html.kind = "markup"
Resolved(url) == _normalize_url(attr(url), _STARTPAGE_BASE_URL)
\* the image URLs the page's scripts and its <img> tags hold
ScriptObjects(elems) ==
    {o \in UNION {{e.objects[k] : k \in 1..Len(e.objects)} :
                     e \in {elems[i] : i \in {j \in 1..Len(elems) : IsScript(elems[j])}}} :
        o.is_dict /\ o.is_text}
ScriptUrls(elems) == {Resolved(o.image_url) : o \in ScriptObjects(elems)} \ {<<>>}
ImgUrls(elems) ==
    {Resolved(IF attr(elems[i].img_data_src) # <<>> THEN elems[i].img_data_src
              ELSE elems[i].img_src) :
        i \in {j \in 1..Len(elems) : IsContainer(elems[j]) /\ elems[j].has_img}} \ {<<>>}

\* C25: an image page holds no two records with the same image_url, and its
\* records come from <img> traversal only when the structured data of the
\* scripts produced none: with an image URL in a script every record is a
\* script's, without one every record is an <img>'s
C25_ImagesStructuredFirst ==
    ImagePage =>
        LET results == out.value.results
            urls == [i \in 1..Len(results) |-> results[i].image_url]
        IN  /\ NoDuplicates(urls)
            /\ IF ScriptUrls(job.html.elems) # {}
               THEN {urls[i] : i \in 1..Len(urls)} = ScriptUrls(job.html.elems)
               ELSE {urls[i] : i \in 1..Len(urls)} \subseteq ImgUrls(job.html.elems)
C25_Witness ==
    /\ ImagePage
    /\ Len(job.html.elems) = 2
    /\ IsScript(job.html.elems[1]) /\ ScriptUrls(job.html.elems) # {}
    /\ IsContainer(job.html.elems[2]) /\ job.html.elems[2].class = "image-container"
    /\ ImgUrls(job.html.elems) = {_STARTPAGE_BASE_URL \o <<"/", "j">>}
    /\ Len(out.value.results) = 1
    /\ out.value.results[1].image_url = _STARTPAGE_BASE_URL \o <<"/", "i">>

PlacesPage ==
    /\ out.fn = "parse_search_results" /\ out.exc = "none"
    /\ job.search_type = "places" /\ job.html.kind = "markup"
\* the items of the page's linked-data blocks that are typed as a place and
\* have a name (a PostalAddress needs none)
LinkedPlaces(elems) ==
    {it \in UNION {{e.ld.items[k] : k \in 1..Len(e.ld.items)} :
                      e \in {elems[i] : i \in {j \in 1..Len(elems) :
                                /\ IsScript(elems[j])
                                /\ elems[j].type = "application/ld+json"
                                /\ elems[j].ld.shape # "invalid"}}} :
        /\ it.is_dict /\ it.type \in PlaceTypes
        /\ (attr(it.name) # <<>> \/ it.type = "PostalAddress")}

\* C26: a places page holds no two records whose name and address are the
\* same up to letter case, all its records carry one data_source, and that
\* is "html" only when the linked-data blocks of the page gave no record
C26_PlacesLinkedDataFirst ==
    PlacesPage =>
        LET results == out.value.results
        IN  /\ \A i, j \in 1..Len(results) :
                   i # j => ~(/\ lower(results[i].name) = lower(results[j].name)
                              /\ lower(results[i].address) = lower(results[j].address))
            /\ \A i, j \in 1..Len(results) :
                   results[i].data_source = results[j].data_source
            /\ \A i \in 1..Len(results) :
                   results[i].data_source =
                       IF LinkedPlaces(job.html.elems) # {} THEN "ld+json" ELSE "html"
            /\ LinkedPlaces(job.html.elems) # {} => results # <<>>
C26_Witness ==
    /\ PlacesPage
    /\ Len(job.html.elems) = 2
    /\ IsScript(job.html.elems[1]) /\ job.html.elems[1].ld.shape = "list"
    /\ IsScript(job.html.elems[2]) /\ job.html.elems[2].ld.shape = "graph"
    /\ \E k \in 1..Len(job.html.elems[2].ld.items) :
           /\ job.html.elems[2].ld.items[k] \in LinkedPlaces(job.html.elems)
           /\ job.html.elems[2].ld.items[k].name = <<"A">>
           /\ job.html.elems[2].ld.items[k].address = <<"b">>
    /\ Len(out.value.results) = 2
    /\ out.value.results[1].name = <<"a">> /\ out.value.results[1].address = <<"B">>
    /\ out.value.results[2].name = <<"A", "d", "d", "r", "e", "s", "s">>
    /\ out.value.results[2].data_source = "ld+json"

ParsedPage ==
    /\ out.fn = "parse_search_results" /\ job.html.kind = "markup"
    /\ ~job.fault /\ job.search_type \in DOMAIN parser_method_map
NextLabeled(c) ==
    \/ next_page_patterns(c.text) \/ next_page_patterns(c.title)
    \/ next_page_patterns(c.aria_label)
    \/ c.classes \cap {"next", "pagination-next"} # {}
Disabled(c) == c.disabled \/ "disabled" \in c.classes
\* the page offers a next control that can be used
EnabledNext(elems) ==
    \/ \E i \in 1..Len(controls_of(elems)) :
          NextLabeled(controls_of(elems)[i]) /\ ~Disabled(controls_of(elems)[i])
    \/ \E i \in 1..Len(elems) :
          /\ IsNav(elems[i]) /\ elems[i].links # <<>>
          /\ implies_next(elems[i].links[Len(elems[i].links)].text)
          /\ ~Disabled(elems[i].links[Len(elems[i].links)])

\* C27: parsing a page never raises, and has_next_page is true only when the
\* page holds a next-labeled link or button that is not disabled or a
\* pagination region whose last control is a next control that is not
\* disabled; a page whose only next-labeled control is disabled gives false
C27_NextPageOnlyWhenEnabled ==
    ParsedPage =>
        /\ out.exc = "none"
        /\ out.value.has_next_page => EnabledNext(job.html.elems)

\* C28: the session is mutated by the throttle step only: proxy, timeout and
\* delay never change; last_request_time never decreases and changes only
\* together with a request, to the timestamp of that request; a step that
\* sends no request (get_search_url, any operation with a blank query)
\* leaves the whole session as it was
C28_SessionFrame ==
    [][/\ delay' = delay /\ proxy' = proxy /\ timeout' = timeout
       /\ last_request_time' >= last_request_time
       /\ last_request_time' # last_request_time =>
              /\ Len(wire') = Len(wire) + 1
              /\ wire'[Len(wire')] = last_request_time'
              /\ \E late \in 0..MaxJitter :
                     last_request_time' = _respect_delay(now, last_request_time, delay, late)
       /\ wire' = wire => session' = session
       /\ (ret'.op = "get_search_url" \/ (ret'.op \in SyncOperations /\ is_blank(ret'.query))) =>
              /\ wire' = wire
              /\ session' = session]_vars
C28_Witness ==
    /\ ret.op = "get_search_url" /\ ~is_blank(ret.query)
    /\ ret.exc = "none" /\ ret.value.query_string.cat = "x"
    /\ Len(wire) = 1 /\ last_request_time = wire[1] /\ last_request_time > 0
    /\ now > last_request_time

\* the last call sent a request and urllib raised
FailedRequest(r) == r.sent # NotSent /\ r.raw.k # "response"

\* C30: a request that urllib fails still counts as the previous request:
\* after it last_request_time is the timestamp recorded for it, and a
\* request that follows it is sent no sooner than delay after that timestamp
C30_FailedRequestCounts ==
    [][/\ FailedRequest(ret') /\ Len(wire') = Len(wire) + 1 =>
              /\ ret'.exc \in {"StartpageRateLimitError", "StartpageHTTPError", "StartpageError"}
              /\ last_request_time' = wire'[Len(wire')]
       /\ FailedRequest(ret) /\ Len(wire) >= 1 /\ Len(wire') = Len(wire) + 1 =>
              /\ last_request_time = wire[Len(wire)]
              /\ wire'[Len(wire')] >= wire[Len(wire)] + delay]_vars
C30_Witness ==
    /\ FailedRequest(ret) /\ ret.raw.k = "HTTPError" /\ ret.raw.code = 429
    /\ Len(wire) = 2 /\ delay = MaxDelay
    /\ last_request_time = wire[2] /\ wire[2] = wire[1] + delay

====
